---- MODULE Spec2Model ----
(***************************************************************************)
(* Key rotation and multi-key JWT signing of jupyter-k8s: the              *)
(* StandardSigner of the auth middleware (internal/jwt), the key codec     *)
(* (internal/jwt secret parser), the secret watch of the middleware        *)
(* (internal/authmiddleware) and the rotator job (internal/rotator).       *)
(*                                                                         *)
(* Strings that the code compares or parses (key names, kids) are          *)
(* sequences of one-character strings, so that decimal formatting,         *)
(* parsing and Go's bytewise string comparison are computed as the code    *)
(* computes them.  Time is in whole seconds.                               *)
(***************************************************************************)
EXTENDS Integers, Sequences, FiniteSets, TLC

VARIABLES
    now,            \* the wall clock read by time.Now(), in seconds
    cfg,            \* deployment configuration (immutable after Init)
    signingKeys,    \* per replica: StandardSigner.signingKeys, kid -> key bytes
    keyAddedTimes,  \* per replica: StandardSigner.keyAddedTimes, kid -> time
    latestKid,      \* per replica: StandardSigner.latestKid
    pc,             \* per replica: position of the request worker inside GenerateToken
    sel,            \* per replica: (kid, key) returned by getLatestKidAndKeyWithCoolOff
    token,          \* a token held by a client, with the payload it was asked for
                    \* (None before one is issued)
    ret,            \* what the most recently completed call returned
    secret,         \* the Kubernetes Secret of the signing keys: Data and resourceVersion
    rot,            \* per rotator job: its position in RotateSecret and the Secret it read
    status,         \* per replica: whether the middleware runs, and since when
    events,         \* per replica: watch events of the Secret not yet handled
    observed,       \* per replica: the kids its signer has been given so far
    nextRotation,   \* when the rotator CronJob fires next
    loading         \* per replica: the answer of the store that a Start in progress
                    \* holds between its Get and its UpdateKeys (None otherwise)

vars == <<now, cfg, signingKeys, keyAddedTimes, latestKid, pc, sel, token, ret,
          secret, rot, status, events, observed, nextRotation, loading>>

signerVars == <<signingKeys, keyAddedTimes, latestKid>>

storeVars == <<secret, rot>>

clusterVars == <<status, events, observed, nextRotation, loading>>

-----------------------------------------------------------------------------
(* Bounds of the model *)

\* seconds the clock may advance in the single-signer specification
SignerMaxTime == 2

-----------------------------------------------------------------------------
(* Strings *)

EmptyStr == <<>>

Digits == <<"0", "1", "2", "3", "4", "5", "6", "7", "8", "9">>

IsDigit(c) == \E i \in 1..10 : Digits[i] = c

DigitVal(c) == (CHOOSE i \in 1..10 : Digits[i] = c) - 1

\* byte value of a character, for Go's bytewise string comparison
CharCode(c) ==
    IF IsDigit(c) THEN 48 + DigitVal(c)
    ELSE IF c = "+" THEN 43
    ELSE IF c = "-" THEN 45
    ELSE 120

\* Go's a > b on strings
StrGreater(a, b) ==
    \E i \in 1..Len(a) :
        /\ \A j \in 1..(i - 1) : j <= Len(b) /\ a[j] = b[j]
        /\ (i > Len(b) \/ CharCode(a[i]) > CharCode(b[i]))

RECURSIVE FormatNat(_)
FormatNat(n) == IF n < 10 THEN <<Digits[n + 1]>>
                ELSE Append(FormatNat(n \div 10), Digits[(n % 10) + 1])

\* fmt's %d of an int64
FormatInt(n) == IF n < 0 THEN <<"-">> \o FormatNat(0 - n) ELSE FormatNat(n)

RECURSIVE DigitsValue(_)
DigitsValue(s) == IF s = <<>> THEN 0
                  ELSE 10 * DigitsValue(SubSeq(s, 1, Len(s) - 1)) + DigitVal(s[Len(s)])

\* strconv.ParseInt(s, 10, 64): an optional sign, then one or more digits
ParseInt(s) ==
    LET signed == Len(s) > 0 /\ s[1] \in {"+", "-"}
        body   == IF signed THEN SubSeq(s, 2, Len(s)) ELSE s
    IN  IF Len(body) = 0 \/ \E i \in 1..Len(body) : ~IsDigit(body[i])
        THEN [ok |-> FALSE, val |-> 0]
        ELSE [ok |-> TRUE,
              val |-> IF signed /\ s[1] = "-" THEN 0 - DigitsValue(body)
                      ELSE DigitsValue(body)]

-----------------------------------------------------------------------------
(* Values *)

Replicas == {1, 2}

\* rotator jobs that may overlap
Rotators == {1, 2}

None == [none |-> TRUE]

\* KeySizeBytes of the key codec
KeySizeBytes == 48

\* a nil []byte: what a Go map lookup returns for an absent kid
NilKey == [nil |-> TRUE, len |-> 0, of |-> EmptyStr]

\* the bytes stored under a key name.  Keys are written once (RotateSecret never
\* overwrites an entry), so a name always carries the same bytes: they are
\* identified by the name's suffix
KeyBytes(k) == [nil |-> FALSE, len |-> KeySizeBytes, of |-> k]

Issuer == "test-issuer"
Audience == "test-audience"

\* jwt5.WithLeeway(5*time.Second)
Leeway == 5

\* algorithms registered with the JWT library, and one that is not
RegisteredAlgs == {"HS384", "HS256", "RS256"}
Algs == RegisteredAlgs \cup {"XS999"}
HMACAlgs == {"HS384", "HS256"}

\* the claims payloads handed to GenerateToken
Payloads ==
    { [username |-> "alice", groups |-> <<"g1", "g2">>, uid |-> "u1",
       path |-> "/a", domain |-> "d.example", tokenType |-> "session"],
      [username |-> "bob", groups |-> <<>>, uid |-> "u2",
       path |-> "/b", domain |-> "e.example", tokenType |-> "bearer"] }

Dom(f) == DOMAIN f

EmptyMap == [k \in {} |-> NilKey]

\* Go's m[k] on a map[string][]byte
Lookup(m, k) == IF k \in Dom(m) THEN m[k] ELSE NilKey

-----------------------------------------------------------------------------
(* StandardSigner *)

\* a cool-off that ends one time unit late
BeyondCoolOffLate(added, t, delay) == {k \in Dom(added) : t - added[k] > delay}

\* a signer that forgets the cool-off
BeyondCoolOffNone(added, t, delay) == Dom(added)

\* the kids that have passed the cool-off at time t
BeyondCoolOff(added, t, delay) == {k \in Dom(added) : t - added[k] >= delay}

\* the loop of getLatestKidAndKeyWithCoolOff: kid > usableKid on strings
LatestUsable(usable) ==
    IF \E k \in usable : k # EmptyStr
    THEN CHOOSE k \in usable : k # EmptyStr /\ \A o \in usable : ~StrGreater(o, k)
    ELSE EmptyStr

\* a selection that looks at the signer's latestKid only and never falls back to
\* an older kid
getLatestKidOnly(r) ==
    IF latestKid[r] \in BeyondCoolOff(keyAddedTimes[r], now, cfg.newKeyUseDelay)
    THEN [kid |-> latestKid[r], key |-> Lookup(signingKeys[r], latestKid[r])]
    ELSE [kid |-> EmptyStr, key |-> NilKey]

\* a selection that takes the kid under one read lock and the bytes in a second
\* look at the signer, where they are those of its latestKid
getKidThenLatestKey(r) ==
    LET usableKid == LatestUsable(BeyondCoolOff(keyAddedTimes[r], now, cfg.newKeyUseDelay))
    IN  IF usableKid = EmptyStr
        THEN [kid |-> EmptyStr, key |-> NilKey]
        ELSE [kid |-> usableKid, key |-> Lookup(signingKeys[r], latestKid[r])]

getLatestKidAndKeyWithCoolOff(r) ==
    LET usableKid == LatestUsable(BeyondCoolOff(keyAddedTimes[r], now, cfg.newKeyUseDelay))
    IN  IF usableKid = EmptyStr
        THEN [kid |-> EmptyStr, key |-> NilKey]
        ELSE [kid |-> usableKid, key |-> Lookup(signingKeys[r], usableKid)]

\* a builder that swaps two custom claims
BuildTokenSwapped(kid, key, p, t) ==
    [alg |-> "HS384", kid |-> kid, sigAlg |-> "HS384", sigKey |-> key,
     iss |-> Issuer, aud |-> Audience, sub |-> p.username,
     iat |-> t, nbf |-> t, exp |-> t + cfg.expiration,
     user |-> p.username, groups |-> p.groups, uid |-> p.uid,
     path |-> p.domain, domain |-> p.path, tokenType |-> p.tokenType,
     skipRefresh |-> FALSE]

\* the token GenerateToken builds and signs with (kid, key) at time t
BuildToken(kid, key, p, t) ==
    [alg |-> "HS384", kid |-> kid, sigAlg |-> "HS384", sigKey |-> key,
     iss |-> Issuer, aud |-> Audience, sub |-> p.username,
     iat |-> t, nbf |-> t, exp |-> t + cfg.expiration,
     user |-> p.username, groups |-> p.groups, uid |-> p.uid,
     path |-> p.path, domain |-> p.domain, tokenType |-> p.tokenType,
     skipRefresh |-> FALSE]

\* the custom claims ValidateToken hands back
ClaimsOf(tok) ==
    [user |-> tok.user, groups |-> tok.groups, uid |-> tok.uid,
     path |-> tok.path, domain |-> tok.domain, tokenType |-> tok.tokenType]

\* a key function that falls back to some held key for a kid it does not know
KeyFuncAnyKey(r, tok) ==
    IF tok.alg \notin HMACAlgs THEN [err |-> "unexpected signing method", key |-> NilKey]
    ELSE IF tok.alg # "HS384" THEN [err |-> "unexpected algorithm", key |-> NilKey]
    ELSE IF tok.kid = EmptyStr
         THEN [err |-> "missing or invalid kid", key |-> NilKey]
    ELSE IF Lookup(signingKeys[r], tok.kid) = NilKey
         THEN [err |-> "", key |-> tok.sigKey]
    ELSE [err |-> "", key |-> Lookup(signingKeys[r], tok.kid)]

\* a key function that only serves keys beyond their cool-off
KeyFuncActiveOnly(r, tok) ==
    IF tok.alg \notin HMACAlgs THEN [err |-> "unexpected signing method", key |-> NilKey]
    ELSE IF tok.alg # "HS384" THEN [err |-> "unexpected algorithm", key |-> NilKey]
    ELSE IF tok.kid = EmptyStr
         THEN [err |-> "missing or invalid kid", key |-> NilKey]
    ELSE IF tok.kid \notin BeyondCoolOff(keyAddedTimes[r], now, cfg.newKeyUseDelay)
         THEN [err |-> "unknown key ID", key |-> NilKey]
    ELSE [err |-> "", key |-> Lookup(signingKeys[r], tok.kid)]

\* the key function given to ParseWithClaims
KeyFunc(r, tok) ==
    IF tok.alg \notin HMACAlgs THEN [err |-> "unexpected signing method", key |-> NilKey]
    ELSE IF tok.alg # "HS384" THEN [err |-> "unexpected algorithm", key |-> NilKey]
    ELSE IF tok.kid = EmptyStr   \* no kid header, or kid not a string, or ""
         THEN [err |-> "missing or invalid kid", key |-> NilKey]
    ELSE IF Lookup(signingKeys[r], tok.kid) = NilKey
         THEN [err |-> "unknown key ID", key |-> NilKey]
    ELSE [err |-> "", key |-> Lookup(signingKeys[r], tok.kid)]

\* a ValidateToken without jwt5.WithValidMethods: the key function alone refuses
\* another algorithm
ValidateTokenNoValidMethods(r, tok, t) ==
    LET kf == KeyFunc(r, tok)
        fail(e, m) == [err |-> e, msg |-> m, claims |-> None]
    IN  IF tok.alg \notin RegisteredAlgs
            THEN fail("ErrInvalidToken", "signing method (alg) is unavailable")
        ELSE IF kf.err # ""
            THEN fail("ErrInvalidToken", kf.err)
        ELSE IF ~(tok.sigAlg = tok.alg /\ tok.sigKey = kf.key)
            THEN fail("ErrInvalidSignature", "signature is invalid")
        ELSE IF ~(t < tok.exp + Leeway)
            THEN fail("ErrTokenExpired", "token is expired")
        ELSE IF t < tok.nbf - Leeway
            THEN fail("ErrInvalidToken", "token is not valid yet")
        ELSE IF tok.aud # Audience \/ tok.iss # Issuer
            THEN fail("ErrInvalidToken", "token has invalid issuer or audience")
        ELSE [err |-> "", msg |-> "", claims |-> ClaimsOf(tok)]

\* a ValidateToken that still accepts a token at the instant exp + leeway
ValidateTokenInclusiveExpiry(r, tok, t) ==
    LET kf == KeyFunc(r, tok)
        fail(e, m) == [err |-> e, msg |-> m, claims |-> None]
    IN  IF tok.alg \notin RegisteredAlgs
            THEN fail("ErrInvalidToken", "signing method (alg) is unavailable")
        ELSE IF tok.alg # "HS384"
            THEN fail("ErrInvalidSignature", "signing method is invalid")
        ELSE IF kf.err # ""
            THEN fail("ErrInvalidToken", kf.err)
        ELSE IF ~(tok.sigAlg = tok.alg /\ tok.sigKey = kf.key)
            THEN fail("ErrInvalidSignature", "signature is invalid")
        ELSE IF t > tok.exp + Leeway
            THEN fail("ErrTokenExpired", "token is expired")
        ELSE IF t < tok.nbf - Leeway
            THEN fail("ErrInvalidToken", "token is not valid yet")
        ELSE IF tok.aud # Audience \/ tok.iss # Issuer
            THEN fail("ErrInvalidToken", "token has invalid issuer or audience")
        ELSE [err |-> "", msg |-> "", claims |-> ClaimsOf(tok)]

\* ValidateToken at replica r and time t: the error kind, the wrapped message and
\* the claims.  The steps are those of jwt5.ParseWithClaims: the algorithm must be
\* registered, then be one of the valid methods, then the key function runs, then
\* the signature and last the registered claims are verified.  The library accepts
\* exp while the clock is before exp + leeway, and nbf from nbf - leeway on.
ValidateToken(r, tok, t) ==
    LET kf == KeyFunc(r, tok)
        fail(e, m) == [err |-> e, msg |-> m, claims |-> None]
    IN  IF tok.alg \notin RegisteredAlgs
            THEN fail("ErrInvalidToken", "signing method (alg) is unavailable")
        ELSE IF tok.alg # "HS384"
            THEN fail("ErrInvalidSignature", "signing method is invalid")
        ELSE IF kf.err # ""
            THEN fail("ErrInvalidToken", kf.err)
        ELSE IF ~(tok.sigAlg = tok.alg /\ tok.sigKey = kf.key)
            THEN fail("ErrInvalidSignature", "signature is invalid")
        ELSE IF ~(t < tok.exp + Leeway)
            THEN fail("ErrTokenExpired", "token is expired")
        ELSE IF t < tok.nbf - Leeway
            THEN fail("ErrInvalidToken", "token is not valid yet")
        ELSE IF tok.aud # Audience \/ tok.iss # Issuer
            THEN fail("ErrInvalidToken", "token has invalid issuer or audience")
        ELSE [err |-> "", msg |-> "", claims |-> ClaimsOf(tok)]

\* an UpdateKeys that stamps every kid anew
NewKeyAddedTimesAllNow(r, keys) == [k \in Dom(keys) |-> now]

\* an UpdateKeys that never forgets the time of a kid it drops
NewKeyAddedTimesKeepAll(r, keys) ==
    [k \in Dom(keys) \cup Dom(keyAddedTimes[r]) |->
        IF k \in Dom(keyAddedTimes[r]) THEN keyAddedTimes[r][k] ELSE now]

\* the AddedAt map UpdateKeys builds: old time for a known kid, now for a new one
NewKeyAddedTimes(r, keys) ==
    [k \in Dom(keys) |-> IF k \in Dom(keyAddedTimes[r]) THEN keyAddedTimes[r][k] ELSE now]

UpdateKeysOk(keys, latest) == Dom(keys) # {} /\ latest \in Dom(keys)

\* an UpdateKeys that replaces the key map before it looks at latestKid
UpdateKeysKeysFirst(r, keys, latest) ==
    IF Dom(keys) = {} THEN UNCHANGED signerVars
    ELSE /\ signingKeys' = [signingKeys EXCEPT ![r] = keys]
         /\ IF latest \in Dom(keys)
            THEN /\ keyAddedTimes' = [keyAddedTimes EXCEPT ![r] = NewKeyAddedTimes(r, keys)]
                 /\ latestKid' = [latestKid EXCEPT ![r] = latest]
            ELSE UNCHANGED <<keyAddedTimes, latestKid>>

\* UpdateKeys(signingKeys, latestKid) on replica r: the signer fields after the call
UpdateKeys(r, keys, latest) ==
    IF UpdateKeysOk(keys, latest)
    THEN /\ signingKeys' = [signingKeys EXCEPT ![r] = keys]
         /\ keyAddedTimes' = [keyAddedTimes EXCEPT ![r] = NewKeyAddedTimes(r, keys)]
         /\ latestKid' = [latestKid EXCEPT ![r] = latest]
    ELSE UNCHANGED signerVars

-----------------------------------------------------------------------------
(* Calls on one StandardSigner.  GenerateToken takes two steps: the read-locked *)
(* getLatestKidAndKeyWithCoolOff, then the building and signing of the token,  *)
(* which reads the clock again; UpdateKeys may run in between.                 *)

Idle == [kid |-> EmptyStr, key |-> NilKey, added |-> 0]

GenSelect(r) ==
    /\ pc[r] = "idle"
    /\ LET got == getLatestKidAndKeyWithCoolOff(r)
       IN  sel' = [sel EXCEPT ![r] =
                     [kid |-> got.kid, key |-> got.key,
                      added |-> IF got.kid = EmptyStr THEN 0
                                ELSE keyAddedTimes[r][got.kid]]]
    /\ pc' = [pc EXCEPT ![r] = "signing"]
    /\ ret' = None
    /\ UNCHANGED <<now, cfg, signerVars, token, storeVars, clusterVars>>

\* what GenerateToken returns for the selection s and the payload p at time t
GenerateToken(s, p, t) ==
    IF s.kid = EmptyStr \/ s.key = NilKey
    THEN [err |-> "no signing key available beyond cooloff period", tok |-> None]
    ELSE [err |-> "", tok |-> BuildToken(s.kid, s.key, p, t)]

GenSign(r, p, keep) ==
    /\ pc[r] = "signing"
    /\ LET out == GenerateToken(sel[r], p, now)
       IN  /\ ret' = [op |-> "GenerateToken", r |-> r, err |-> out.err, tok |-> out.tok,
                      payload |-> p, selAdded |-> sel[r].added]
           /\ token' = IF keep /\ out.err = ""
                       THEN [tok |-> out.tok, payload |-> p, by |-> r] ELSE token
    /\ pc' = [pc EXCEPT ![r] = "idle"]
    /\ sel' = [sel EXCEPT ![r] = Idle]
    /\ UNCHANGED <<now, cfg, signerVars, storeVars, clusterVars>>

\* a kid no signer of the model is ever given
ForeignKid == <<"9", "9", "9", "9">>

\* tokens made outside the signer: another algorithm over the bytes of a key the
\* signer holds, HS384 over bytes the signer does not hold, a token without kid,
\* and a token of another signer under a kid this one never saw
Forged(r) ==
    LET p == CHOOSE q \in Payloads : q.username = "alice"
    IN  { [BuildToken(k, signingKeys[r][k], p, now) EXCEPT !.alg = a, !.sigAlg = a] :
            k \in Dom(signingKeys[r]), a \in Algs \ {"HS384"} }
        \cup { BuildToken(k, KeyBytes(<<"x">>), p, now) : k \in Dom(signingKeys[r]) }
        \cup { BuildToken(EmptyStr, signingKeys[r][k], p, now) : k \in Dom(signingKeys[r]) }
        \cup { BuildToken(ForeignKid, KeyBytes(ForeignKid), p, now) }

\* a ValidateToken that refreshes the AddedAt of the kid of a token it accepts
CallValidateTokenTouching(r, tok) ==
    /\ ret' = [op |-> "ValidateToken", r |-> r, tok |-> tok, out |-> ValidateToken(r, tok, now)]
    /\ keyAddedTimes' =
         IF ValidateToken(r, tok, now).err = ""
         THEN [keyAddedTimes EXCEPT ![r] = [@ EXCEPT ![tok.kid] = now]]
         ELSE keyAddedTimes
    /\ UNCHANGED <<now, cfg, signingKeys, latestKid, pc, sel, token, storeVars, clusterVars>>

CallValidateToken(r, tok) ==
    /\ ret' = [op |-> "ValidateToken", r |-> r, tok |-> tok, out |-> ValidateToken(r, tok, now)]
    /\ UNCHANGED <<now, cfg, signerVars, pc, sel, token, storeVars, clusterVars>>

CallUpdateKeys(r, keys, latest) ==
    /\ UpdateKeys(r, keys, latest)
    /\ ret' = [op |-> "UpdateKeys", r |-> r,
               err |-> IF UpdateKeysOk(keys, latest) THEN "" ELSE "invalid update",
               keys |-> keys, latest |-> latest]
    /\ UNCHANGED <<now, cfg, pc, sel, token, storeVars, clusterVars>>

Tick(d, limit) ==
    /\ now + d <= limit
    /\ now' = now + d
    /\ ret' = None
    /\ UNCHANGED <<cfg, signerVars, pc, sel, token, storeVars, clusterVars>>

-----------------------------------------------------------------------------
(* Key codec: names of the Secret's entries *)

\* "jwt-signing-key-"
KeyPrefix ==
    <<"j", "w", "t", "-", "s", "i", "g", "n", "i", "n", "g", "-", "k", "e", "y", "-">>

\* strings.HasPrefix(name, KeyPrefix)
HasPrefix(name) ==
    Len(name) >= Len(KeyPrefix) /\ SubSeq(name, 1, Len(KeyPrefix)) = KeyPrefix

\* strings.TrimPrefix(name, KeyPrefix)
TrimPrefix(name) ==
    IF HasPrefix(name) THEN SubSeq(name, Len(KeyPrefix) + 1, Len(name)) ELSE name

BuildKeyName(timestamp) == KeyPrefix \o FormatInt(timestamp)

ParseKeyTimestamp(keyName) ==
    IF ~HasPrefix(keyName) THEN [ok |-> FALSE, val |-> 0]
    ELSE ParseInt(TrimPrefix(keyName))

\* the entries whose name carries the prefix
Prefixed(data) == {n \in DOMAIN data : HasPrefix(n)}

\* the entries a rotation counts: prefixed, with a timestamp that parses
ValidEntries(data) == {n \in Prefixed(data) : ParseKeyTimestamp(n).ok}

Timestamp(name) == ParseKeyTimestamp(name).val

\* the kids a scan of the entries in names may end with as the latest: the scan
\* starts from timestamp 0 and kid "", and moves on a strictly greater timestamp
\* only, so among equal greatest timestamps Go's map order decides
LatestKids(names) ==
    LET pos == {n \in names : Timestamp(n) > 0}
    IN  IF pos = {} THEN {EmptyStr}
        ELSE {TrimPrefix(n) : n \in {m \in pos : \A o \in pos : Timestamp(o) <= Timestamp(m)}}

\* a parse that skips a malformed entry, as the rotator does
ParseSkippingMalformed(data) ==
    IF ValidEntries(data) = {}
        THEN {[err |-> "no signing keys found in secret", keys |-> EmptyMap,
               latest |-> EmptyStr]}
    ELSE {[err |-> "",
           keys |-> [k \in {TrimPrefix(n) : n \in ValidEntries(data)} |->
                        data[CHOOSE n \in ValidEntries(data) : TrimPrefix(n) = k]],
           latest |-> l] : l \in LatestKids(ValidEntries(data))}

\* ParseSigningKeysFromSecret(secret): the results it may return
ParseSigningKeysFromSecret(data) ==
    IF Prefixed(data) # ValidEntries(data)
        THEN {[err |-> "invalid key format", keys |-> EmptyMap, latest |-> EmptyStr]}
    ELSE IF Prefixed(data) = {}
        THEN {[err |-> "no signing keys found in secret", keys |-> EmptyMap,
               latest |-> EmptyStr]}
    ELSE {[err |-> "",
           keys |-> [k \in {TrimPrefix(n) : n \in Prefixed(data)} |->
                        data[CHOOSE n \in Prefixed(data) : TrimPrefix(n) = k]],
           latest |-> l] : l \in LatestKids(Prefixed(data))}

-----------------------------------------------------------------------------
(* Rotator *)

\* a pruning that removes entries of any age
KeysToRemoveAny(names, numberOfKeys) ==
    IF Cardinality(names) <= numberOfKeys THEN {{}}
    ELSE {S \in SUBSET names : Cardinality(S) = Cardinality(names) - numberOfKeys}

\* a pruning that keeps one entry too many
KeysToRemoveLate(names, numberOfKeys) ==
    IF Cardinality(names) <= numberOfKeys + 1 THEN {{}}
    ELSE {S \in SUBSET names :
            /\ Cardinality(S) = Cardinality(names) - numberOfKeys - 1
            /\ \A a \in S, b \in names \ S : Timestamp(a) <= Timestamp(b)}

\* a pruning that drops the newest entries instead of the oldest
KeysToRemoveNewest(names, numberOfKeys) ==
    {S \in SUBSET names :
        /\ Cardinality(S) = Cardinality(names) - numberOfKeys
        /\ \A a \in S, b \in names \ S : Timestamp(a) >= Timestamp(b)}

\* keys[:len(keys)-numberOfKeys] of the entries sorted by timestamp: the sets the
\* prune may remove (sort.Slice may order entries of equal timestamp either way)
KeysToRemove(names, numberOfKeys) ==
    IF Cardinality(names) <= numberOfKeys THEN {{}}
    ELSE {S \in SUBSET names :
            /\ Cardinality(S) = Cardinality(names) - numberOfKeys
            /\ \A a \in S, b \in names \ S : Timestamp(a) <= Timestamp(b)}

\* a rotation that counts every prefixed entry as a key, the malformed ones too
RotatedCountingMalformed(data, numberOfKeys, t) ==
    LET keys       == Prefixed(data)
        newKeyName == BuildKeyName(t)
        added      == [n \in DOMAIN data \cup {newKeyName} |->
                          IF n = newKeyName THEN KeyBytes(FormatInt(t)) ELSE data[n]]
    IN  IF newKeyName \in keys
        THEN {[err |-> "key with timestamp already exists, refusing to overwrite",
               data |-> data, newKeyName |-> newKeyName]}
        ELSE {[err |-> "",
               data |-> [n \in DOMAIN added \ S |-> added[n]],
               newKeyName |-> newKeyName] :
                 S \in KeysToRemove(keys \cup {newKeyName}, numberOfKeys)}

\* a rotation that writes over an entry of the same name
RotatedOverwriting(data, numberOfKeys, t) ==
    LET keys       == ValidEntries(data)
        newKeyName == BuildKeyName(t)
        added      == [n \in DOMAIN data \cup {newKeyName} |->
                          IF n = newKeyName THEN KeyBytes(<<"n", "e", "w">>) ELSE data[n]]
    IN  {[err |-> "",
          data |-> [n \in DOMAIN added \ S |-> added[n]],
          newKeyName |-> newKeyName] :
            S \in KeysToRemove(keys \cup {newKeyName}, numberOfKeys)}

\* the body of RotateSecret between its Get and its Update, on the Data it read,
\* at time t: the outcomes it may reach
Rotated(data, numberOfKeys, t) ==
    LET keys       == ValidEntries(data)
        newKeyName == BuildKeyName(t)
        added      == [n \in DOMAIN data \cup {newKeyName} |->
                          IF n = newKeyName THEN KeyBytes(FormatInt(t)) ELSE data[n]]
    IN  IF newKeyName \in keys
        THEN {[err |-> "key with timestamp already exists, refusing to overwrite",
               data |-> data, newKeyName |-> newKeyName]}
        ELSE {[err |-> "",
               data |-> [n \in DOMAIN added \ S |-> added[n]],
               newKeyName |-> newKeyName] :
                 S \in KeysToRemove(keys \cup {newKeyName}, numberOfKeys)}

RotIdle == [pc |-> "idle", data |-> EmptyMap, resourceVersion |-> 0, numberOfKeys |-> 0]

\* RotateSecret up to its Get of the Secret; fails says that the store refuses
\* the Get
RotateGet(p, numberOfKeys, fails) ==
    /\ rot[p].pc = "idle"
    /\ IF numberOfKeys < 1 \/ fails
       THEN /\ ret' = [op |-> "RotateSecret", p |-> p,
                       err |-> IF numberOfKeys < 1 THEN "numberOfKeys must be at least 1"
                               ELSE "failed to get secret",
                       numberOfKeys |-> numberOfKeys, before |-> EmptyMap,
                       newKeyName |-> EmptyStr]
            /\ rot' = rot
       ELSE /\ rot' = [rot EXCEPT ![p] = [pc |-> "got", data |-> secret.data,
                                          resourceVersion |-> secret.resourceVersion,
                                          numberOfKeys |-> numberOfKeys]]
            /\ ret' = None
    /\ UNCHANGED <<now, cfg, signerVars, pc, sel, token, secret, clusterVars>>

\* a RotateSecret that tries again on the Secret as it is now when its Update is
\* refused for a conflict
RotateUpdateRetrying(p, fails) ==
    /\ rot[p].pc = "got"
    /\ LET conflict == rot[p].resourceVersion # secret.resourceVersion
           read == IF conflict THEN secret.data ELSE rot[p].data
       IN  \E out \in Rotated(read, rot[p].numberOfKeys, now) :
              LET err == IF out.err # "" THEN out.err
                         ELSE IF fails THEN "failed to update secret"
                         ELSE ""
              IN  /\ secret' = IF err = ""
                               THEN [data |-> out.data,
                                     resourceVersion |-> secret.resourceVersion + 1]
                               ELSE secret
                  /\ ret' = [op |-> "RotateSecret", p |-> p, err |-> err,
                             numberOfKeys |-> rot[p].numberOfKeys, before |-> read,
                             newKeyName |-> out.newKeyName]
    /\ rot' = [rot EXCEPT ![p] = RotIdle]
    /\ UNCHANGED <<now, cfg, signerVars, pc, sel, token, clusterVars>>

\* an Update that the store accepts whatever version the rotator has read
RotateUpdateUnchecked(p, fails) ==
    /\ rot[p].pc = "got"
    /\ \E out \in Rotated(rot[p].data, rot[p].numberOfKeys, now) :
         LET err == IF out.err # "" THEN out.err
                    ELSE IF fails THEN "failed to update secret"
                    ELSE ""
         IN  /\ secret' = IF err = ""
                          THEN [data |-> out.data,
                                resourceVersion |-> secret.resourceVersion + 1]
                          ELSE secret
             /\ ret' = [op |-> "RotateSecret", p |-> p, err |-> err,
                        numberOfKeys |-> rot[p].numberOfKeys, before |-> rot[p].data,
                        newKeyName |-> out.newKeyName]
    /\ rot' = [rot EXCEPT ![p] = RotIdle]
    /\ UNCHANGED <<now, cfg, signerVars, pc, sel, token, clusterVars>>

\* RotateSecret from the parsing of the entries to its Update: the Update is
\* refused when the Secret changed since the Get, or fails for another reason
RotateUpdate(p, fails) ==
    /\ rot[p].pc = "got"
    /\ \E out \in Rotated(rot[p].data, rot[p].numberOfKeys, now) :
         LET err == IF out.err # "" THEN out.err
                    ELSE IF rot[p].resourceVersion # secret.resourceVersion \/ fails
                         THEN "failed to update secret"
                    ELSE ""
         IN  /\ secret' = IF err = ""
                          THEN [data |-> out.data,
                                resourceVersion |-> secret.resourceVersion + 1]
                          ELSE secret
             /\ ret' = [op |-> "RotateSecret", p |-> p, err |-> err,
                        numberOfKeys |-> rot[p].numberOfKeys, before |-> rot[p].data,
                        newKeyName |-> out.newKeyName]
    /\ rot' = [rot EXCEPT ![p] = RotIdle]
    /\ UNCHANGED <<now, cfg, signerVars, pc, sel, token, clusterVars>>

\* ValidateSecret on the Data of the Secret
ValidateSecret(data) ==
    IF Prefixed(data) # ValidEntries(data) THEN "invalid key"
    ELSE IF Prefixed(data) = {} THEN "secret has no valid JWT signing keys"
    ELSE ""

\* GetLatestKeyID on the Data of the Secret: the results it may return
GetLatestKeyID(data) ==
    {[kid |-> l, err |-> IF l = EmptyStr THEN "no valid JWT signing keys found" ELSE ""] :
        l \in LatestKids(ValidEntries(data))}

CallValidateSecret ==
    /\ ret' = [op |-> "ValidateSecret", err |-> ValidateSecret(secret.data)]
    /\ UNCHANGED <<now, cfg, signerVars, pc, sel, token, storeVars, clusterVars>>

CallGetLatestKeyID ==
    /\ \E out \in GetLatestKeyID(secret.data) :
         ret' = [op |-> "GetLatestKeyID", err |-> out.err, kid |-> out.kid]
    /\ UNCHANGED <<now, cfg, signerVars, pc, sel, token, storeVars, clusterVars>>

\* before the middleware runs
Down == [up |-> FALSE, since |-> 0]

-----------------------------------------------------------------------------
(* SpecSigner: one StandardSigner driven through its public operations with    *)
(* any key maps, as a direct caller of UpdateKeys may.                         *)

Signers == {1}

SignerKids == {<<"9">>, <<"1", "0">>}

\* every key map over the kids, the empty one included
KeyMaps(kids) == {[k \in S |-> KeyBytes(k)] : S \in SUBSET kids}

SignerConfigs ==
    { [newKeyUseDelay |-> d, expiration |-> e, numberOfKeys |-> 0,
       rotationInterval |-> 0, watchLag |-> 0] : d \in {0, 1, 2}, e \in {3600, -4} }

InitSigner ==
    /\ now = 0
    /\ cfg \in SignerConfigs
    /\ signingKeys = [r \in Replicas |-> EmptyMap]
    /\ keyAddedTimes = [r \in Replicas |-> EmptyMap]
    /\ latestKid = [r \in Replicas |-> EmptyStr]
    /\ pc = [r \in Replicas |-> "idle"]
    /\ sel = [r \in Replicas |-> Idle]
    /\ token = None
    /\ ret = None
    /\ secret = [data |-> EmptyMap, resourceVersion |-> 0]
    /\ rot = [p \in Rotators |-> RotIdle]
    /\ status = [r \in Replicas |-> Down]
    /\ events = [r \in Replicas |-> <<>>]
    /\ observed = [r \in Replicas |-> {}]
    /\ nextRotation = 0
    /\ loading = [r \in Replicas |-> None]

SignerUpdate ==
    \E r \in Signers, keys \in KeyMaps(SignerKids) :
        \E latest \in Dom(keys) \cup {EmptyStr} : CallUpdateKeys(r, keys, latest)

SignerSelect == \E r \in Signers : GenSelect(r)

SignerSign == \E r \in Signers, p \in Payloads, keep \in BOOLEAN : GenSign(r, p, keep)

SignerValidate ==
    \E r \in Signers :
        \E tok \in (IF token = None THEN {} ELSE {token.tok}) \cup Forged(r) :
            CallValidateToken(r, tok)

SignerTick == Tick(1, SignerMaxTime)

NextSigner ==
    \/ SignerUpdate
    \/ SignerSelect
    \/ SignerSign
    \/ SignerValidate
    \/ SignerTick

SpecSigner == InitSigner /\ [][NextSigner]_vars

\* the signer with tokens that outlive the modelled time and a clock that keeps
\* advancing up to the end of it
InitSignerLive == InitSigner /\ cfg.expiration > 0

SpecSignerLive == InitSignerLive /\ [][NextSigner]_vars /\ WF_vars(SignerTick)

-----------------------------------------------------------------------------
(* SpecRotator: rotator jobs on a Secret that holds signing keys, an entry with *)
(* a malformed name and an entry of another owner.                             *)

\* the clock of the rotator specification runs from RotStart to RotMaxTime
RotStart == 2

RotMaxTime == 3

RotMaxKeys == 2

\* writes of the Secret in one behaviour
RotMaxWrites == 3

\* "jwt-signing-key-01": a second name of timestamp 1
PaddedName == KeyPrefix \o <<"0", "1">>

MalformedName == KeyPrefix \o <<"x">>

ForeignName == <<"c", "a">>

\* a key dated after every clock value of the specification
FutureName == KeyPrefix \o <<"9", "9">>

RotNames == {BuildKeyName(1), PaddedName, FutureName, MalformedName, ForeignName}

InitRotator ==
    /\ now = RotStart
    /\ cfg \in {c \in SignerConfigs : c.newKeyUseDelay = 0 /\ c.expiration > 0}
    /\ signingKeys = [r \in Replicas |-> EmptyMap]
    /\ keyAddedTimes = [r \in Replicas |-> EmptyMap]
    /\ latestKid = [r \in Replicas |-> EmptyStr]
    /\ pc = [r \in Replicas |-> "idle"]
    /\ sel = [r \in Replicas |-> Idle]
    /\ token = None
    /\ ret = None
    /\ \E S \in SUBSET RotNames :
         secret = [data |-> [n \in S |-> KeyBytes(TrimPrefix(n))], resourceVersion |-> 0]
    /\ rot = [p \in Rotators |-> RotIdle]
    /\ status = [r \in Replicas |-> Down]
    /\ events = [r \in Replicas |-> <<>>]
    /\ observed = [r \in Replicas |-> {}]
    /\ nextRotation = 0
    /\ loading = [r \in Replicas |-> None]

RotatorGet ==
    /\ secret.resourceVersion < RotMaxWrites
    /\ \E p \in Rotators, n \in 0..RotMaxKeys, fails \in BOOLEAN : RotateGet(p, n, fails)

RotatorUpdate == \E p \in Rotators, fails \in BOOLEAN : RotateUpdate(p, fails)

RotatorValidate == CallValidateSecret

RotatorLatest == CallGetLatestKeyID

RotatorTick == Tick(1, RotMaxTime)

NextRotator ==
    \/ RotatorGet
    \/ RotatorUpdate
    \/ RotatorValidate
    \/ RotatorLatest
    \/ RotatorTick

SpecRotator == InitRotator /\ [][NextRotator]_vars

-----------------------------------------------------------------------------
(* Deployment configuration: the checks of the Helm chart *)

Minute == 60

\* the buffer the chart adds to the JWT expiration, in minutes
RetentionBufferMinutes == 30

\* the chart renders for a configuration c (times in seconds) without failing
HelmAccepts(c) ==
    LET jwtExpirationMinutes    == c.expiration \div Minute
        rotationIntervalMinutes == c.rotationInterval \div Minute
        retentionMinutes        == c.numberOfKeys * rotationIntervalMinutes
        requiredRetentionMinutes == jwtExpirationMinutes + RetentionBufferMinutes
    IN  /\ c.numberOfKeys >= 1
        /\ ~(retentionMinutes < requiredRetentionMinutes)
        /\ ~(c.newKeyUseDelay >= c.expiration)
        /\ ~(c.newKeyUseDelay >= rotationIntervalMinutes * Minute)

-----------------------------------------------------------------------------
(* The middleware replicas: start, watch events, requests *)

\* a write of the Secret reaches the informer of every running replica
Notify(data) ==
    [r \in Replicas |->
        IF status[r].up THEN Append(events[r], [data |-> data, at |-> now]) ELSE events[r]]

\* what runtimeClient.Get may answer for a Secret that holds data
GetOutcomes(data) ==
    {[err |-> "", data |-> data],
     [err |-> "not found", data |-> EmptyMap],
     [err |-> "forbidden", data |-> EmptyMap]}

StartErrors ==
    {"", "failed to get JWT signing secret", "failed to parse signing keys from secret",
     "failed to update signing keys"}

\* an initial load that reports success whatever happened
RetrieveInitialSecretLenient(r, get, err) ==
    /\ IF get.err # "" THEN UNCHANGED signerVars
       ELSE \E got \in ParseSigningKeysFromSecret(get.data) :
               IF got.err = "" THEN UpdateKeys(r, got.keys, got.latest)
               ELSE UNCHANGED signerVars
    /\ err = ""

\* RetrieveInitialSecret on replica r, get being the answer of the store: the
\* Secret is parsed and handed to UpdateKeys; err is the error it returns
RetrieveInitialSecret(r, get, err) ==
    IF get.err # ""
    THEN /\ UNCHANGED signerVars
         /\ err = "failed to get JWT signing secret"
    ELSE \E got \in ParseSigningKeysFromSecret(get.data) :
            /\ IF got.err = "" THEN UpdateKeys(r, got.keys, got.latest)
               ELSE UNCHANGED signerVars
            /\ err = IF got.err # "" THEN "failed to parse signing keys from secret"
                     ELSE IF ~UpdateKeysOk(got.keys, got.latest)
                         THEN "failed to update signing keys"
                     ELSE ""

\* what HTTPServerRunnable.Start of replica r does with the answer get of the
\* store: the server is started when RetrieveInitialSecret returned no error; any
\* failure ends the start
StartOutcome(r, get) ==
    \E err \in StartErrors :
        /\ RetrieveInitialSecret(r, get, err)
        /\ status' = [status EXCEPT ![r] = IF err = "" THEN [up |-> TRUE, since |-> now]
                                           ELSE Down]
        /\ observed' = [observed EXCEPT ![r] =
                          IF err = "" THEN @ \cup Dom(signingKeys'[r]) ELSE @]
        /\ ret' = [op |-> "Start", r |-> r,
                   err |-> IF err = "" THEN "" ELSE "failed to retrieve initial secret",
                   cause |-> err, get |-> get]

\* HTTPServerRunnable.Start of replica r with no other step between its Get and
\* its UpdateKeys
StartWith(r, get) ==
    /\ ~status[r].up
    /\ loading[r] = None
    /\ StartOutcome(r, get)
    /\ UNCHANGED <<now, cfg, pc, sel, token, storeVars, events, nextRotation, loading>>

\* the Get of RetrieveInitialSecret in a Start of replica r
StartGet(r) ==
    /\ ~status[r].up
    /\ loading[r] = None
    /\ \E get \in GetOutcomes(secret.data) :
         loading' = [loading EXCEPT ![r] =
                       [get |-> get, resourceVersion |-> secret.resourceVersion]]
    /\ ret' = None
    /\ UNCHANGED <<now, cfg, signerVars, pc, sel, token, storeVars,
                   status, events, observed, nextRotation>>

\* the rest of that Start: the parse and UpdateKeys of what the Get answered
StartLoad(r) ==
    /\ loading[r] # None
    /\ StartOutcome(r, loading[r].get)
    /\ loading' = [loading EXCEPT ![r] = None]
    /\ UNCHANGED <<now, cfg, pc, sel, token, storeVars, events, nextRotation>>

\* the start of replica r when the store answers with the Secret
Start(r) == StartWith(r, [err |-> "", data |-> secret.data])

\* the Add/Update handler of replica r on its oldest pending event:
\* updateSignerFromSecret parses the Secret and calls UpdateKeys; an error is
\* logged and the signer keeps its keys
Deliver(r) ==
    /\ status[r].up
    /\ events[r] # <<>>
    /\ \E got \in ParseSigningKeysFromSecret(Head(events[r]).data) :
         LET ok == got.err = "" /\ UpdateKeysOk(got.keys, got.latest)
         IN  /\ IF got.err = "" THEN UpdateKeys(r, got.keys, got.latest)
                ELSE UNCHANGED signerVars
             /\ observed' = [observed EXCEPT ![r] = IF ok THEN @ \cup Dom(got.keys) ELSE @]
             /\ ret' = [op |-> "Deliver", r |-> r,
                        err |-> IF ok THEN "" ELSE "failed to update signing keys"]
    /\ events' = [events EXCEPT ![r] = Tail(@)]
    /\ UNCHANGED <<now, cfg, pc, sel, token, storeVars, status, nextRotation, loading>>

\* the replicas that run and have not been given kid
Unseen(r, kid) == {q \in Replicas \ {r} : status[q].up /\ kid \notin observed[q]}

\* a whole GenerateToken on replica r with nothing running in between
Generate(r, p, keep) ==
    /\ status[r].up
    /\ pc[r] = "idle"
    /\ LET got == getLatestKidAndKeyWithCoolOff(r)
           out == GenerateToken(got, p, now)
       IN  /\ ret' = [op |-> "GenerateToken", r |-> r, err |-> out.err, tok |-> out.tok,
                      payload |-> p,
                      selAdded |-> IF got.kid = EmptyStr THEN 0
                                   ELSE keyAddedTimes[r][got.kid],
                      unseen |-> Unseen(r, got.kid),
                      warm |-> now - status[r].since >= cfg.newKeyUseDelay]
           /\ token' = IF keep /\ out.err = ""
                       THEN [tok |-> out.tok, payload |-> p, by |-> r] ELSE token
    /\ UNCHANGED <<now, cfg, signerVars, pc, sel, storeVars, clusterVars>>

\* the rotator CronJob fires: one RotateSecret from Get to Update, and the write
\* is announced to the replicas that run
CronRotate ==
    /\ now >= nextRotation
    /\ \E out \in Rotated(secret.data, cfg.numberOfKeys, now) :
         /\ secret' = IF out.err = ""
                      THEN [data |-> out.data, resourceVersion |-> secret.resourceVersion + 1]
                      ELSE secret
         /\ events' = IF out.err = "" THEN Notify(out.data) ELSE events
         /\ ret' = [op |-> "RotateSecret", p |-> 1, err |-> out.err,
                    numberOfKeys |-> cfg.numberOfKeys, before |-> secret.data,
                    newKeyName |-> out.newKeyName]
    /\ nextRotation' = nextRotation + cfg.rotationInterval
    /\ UNCHANGED <<now, cfg, signerVars, pc, sel, token, rot, status, observed, loading>>

\* time passes by d: not past a rotation that is due, and not past the moment a
\* pending event must have been handled
Pass(d, limit) ==
    /\ now + d <= nextRotation
    /\ \A r \in Replicas : \A i \in 1..Len(events[r]) :
           now + d - events[r][i].at <= cfg.watchLag
    /\ Tick(d, limit)

-----------------------------------------------------------------------------
(* SpecSystem: the Secret, the rotator CronJob and two middleware replicas      *)
(* under a configuration the chart accepts.                                    *)

\* the grain of the clock
Step == 30 * Minute

\* the time of installation, when the Secret gets its first key
Epoch == 20 * Step

\* clock steps of one behaviour
SysMaxSteps == 6

SysMaxKeys == 2

\* the longest retention, numberOfKeys x rotationInterval, in steps
SysMaxRetention == 8

SysPayload == CHOOSE q \in Payloads : q.username = "alice"

SysConfigs ==
    { c \in [newKeyUseDelay : {60 * Minute}, expiration : {90 * Minute, 120 * Minute},
             numberOfKeys : 1..SysMaxKeys,
             rotationInterval : {120 * Minute},
             watchLag : {Step}] :
        /\ HelmAccepts(c)
        /\ c.numberOfKeys * c.rotationInterval <= SysMaxRetention * Step }

InitSystem ==
    /\ now = Epoch
    /\ cfg \in SysConfigs
    /\ signingKeys = [r \in Replicas |-> EmptyMap]
    /\ keyAddedTimes = [r \in Replicas |-> EmptyMap]
    /\ latestKid = [r \in Replicas |-> EmptyStr]
    /\ pc = [r \in Replicas |-> "idle"]
    /\ sel = [r \in Replicas |-> Idle]
    /\ token = None
    /\ ret = None
    /\ secret = [data |-> [n \in {BuildKeyName(Epoch)} |-> KeyBytes(FormatInt(Epoch))],
                 resourceVersion |-> 0]
    /\ rot = [p \in Rotators |-> RotIdle]
    /\ status = [r \in Replicas |-> Down]
    /\ events = [r \in Replicas |-> <<>>]
    /\ observed = [r \in Replicas |-> {}]
    /\ nextRotation = Epoch + cfg.rotationInterval
    /\ loading = [r \in Replicas |-> None]

SysStart == \E r \in Replicas : Start(r)

SysDeliver == \E r \in Replicas : Deliver(r)

SysGenerate == \E r \in Replicas, keep \in BOOLEAN : Generate(r, SysPayload, keep)

SysValidate ==
    /\ token # None
    /\ \E r \in Replicas : status[r].up /\ CallValidateToken(r, token.tok)

SysRotate == CronRotate

SysTick == Pass(Step, Epoch + SysMaxSteps * Step)

NextSystem ==
    \/ SysStart
    \/ SysDeliver
    \/ SysGenerate
    \/ SysValidate
    \/ SysRotate
    \/ SysTick

SpecSystem == InitSystem /\ [][NextSystem]_vars

-----------------------------------------------------------------------------
(* The informer's event handlers of registerSecretWatchHandlers *)

\* the Secret the middleware is configured to watch
secretName == "authmiddleware-secrets"

namespace == "jupyter-k8s-system"

\* a handler that empties the signer when the Secret cannot be used
updateSignerOrClear(r, data, log) ==
    \E got \in ParseSigningKeysFromSecret(data) :
        LET ok == got.err = "" /\ UpdateKeysOk(got.keys, got.latest)
        IN  /\ IF ok THEN UpdateKeys(r, got.keys, got.latest)
               ELSE /\ signingKeys' = [signingKeys EXCEPT ![r] = EmptyMap]
                    /\ keyAddedTimes' = [keyAddedTimes EXCEPT ![r] = EmptyMap]
                    /\ latestKid' = [latestKid EXCEPT ![r] = EmptyStr]
            /\ log = IF got.err # "" THEN "Failed to parse signing keys"
                     ELSE IF ~ok THEN "Failed to update signing keys"
                     ELSE "Successfully updated signing keys from secret"

\* updateSignerFromSecret(secret) on replica r: parse, then UpdateKeys; either
\* error is logged and the handler returns; log is the line it writes
updateSignerFromSecret(r, data, log) ==
    \E got \in ParseSigningKeysFromSecret(data) :
        /\ IF got.err = "" THEN UpdateKeys(r, got.keys, got.latest)
           ELSE UNCHANGED signerVars
        /\ log = IF got.err # "" THEN "Failed to parse signing keys"
                 ELSE IF ~UpdateKeysOk(got.keys, got.latest)
                     THEN "Failed to update signing keys"
                 ELSE "Successfully updated signing keys from secret"

WatchLogs ==
    {"Failed to parse signing keys", "Failed to update signing keys",
     "Successfully updated signing keys from secret"}

\* the filter of the three handlers: only the configured Secret is processed
IsTarget(obj) == obj.name = secretName /\ obj.namespace = namespace

\* AddFunc and UpdateFunc have the same body but for the line they log
OnAddOrUpdate(r, obj, op) ==
    /\ IF IsTarget(obj)
       THEN \E log \in WatchLogs :
               /\ updateSignerFromSecret(r, obj.data, log)
               /\ ret' = [op |-> op, r |-> r, obj |-> obj, log |-> log]
       ELSE /\ UNCHANGED signerVars
            /\ ret' = [op |-> op, r |-> r, obj |-> obj, log |-> ""]
    /\ UNCHANGED <<now, cfg, pc, sel, token, storeVars, clusterVars>>

AddFunc(r, obj) == OnAddOrUpdate(r, obj, "AddFunc")

UpdateFunc(r, obj) == OnAddOrUpdate(r, obj, "UpdateFunc")

\* a delete handler that drops the keys of a deleted Secret
DeleteFuncClears(r, obj) ==
    /\ IF IsTarget(obj)
       THEN /\ signingKeys' = [signingKeys EXCEPT ![r] = EmptyMap]
            /\ keyAddedTimes' = [keyAddedTimes EXCEPT ![r] = EmptyMap]
            /\ latestKid' = [latestKid EXCEPT ![r] = EmptyStr]
       ELSE UNCHANGED signerVars
    /\ ret' = [op |-> "DeleteFunc", r |-> r, obj |-> obj,
               log |-> IF IsTarget(obj) THEN "Secret deleted" ELSE ""]
    /\ UNCHANGED <<now, cfg, pc, sel, token, storeVars, clusterVars>>

\* DeleteFunc: the deletion of the configured Secret is logged, nothing else
DeleteFunc(r, obj) ==
    /\ ret' = [op |-> "DeleteFunc", r |-> r, obj |-> obj,
               log |-> IF IsTarget(obj) THEN "Secret deleted" ELSE ""]
    /\ UNCHANGED <<now, cfg, signerVars, pc, sel, token, storeVars, clusterVars>>

-----------------------------------------------------------------------------
(* SpecWatch: one middleware replica whose informer reports Secrets of the     *)
(* configured and of other names and namespaces, with good and bad contents.   *)

WatchMaxTime == 1

\* entries of one Secret at most
WatchMaxEntries == 2

\* a signing key stamped 0: it parses, and is never the latest
ZeroName == KeyPrefix \o <<"0">>

WatchNames == {BuildKeyName(1), BuildKeyName(2), ZeroName, MalformedName, ForeignName}

WatchData ==
    {[e \in S |-> KeyBytes(TrimPrefix(e))] :
        S \in {T \in SUBSET WatchNames : Cardinality(T) <= WatchMaxEntries}}

\* the configured Secret with any of the contents, and Secrets of another name,
\* another namespace or both that carry a good signing key
WatchObjects ==
    {[name |-> secretName, namespace |-> namespace, data |-> d] : d \in WatchData}
    \cup { [name |-> n, namespace |-> ns,
            data |-> [e \in {BuildKeyName(2)} |-> KeyBytes(TrimPrefix(e))]] :
             n \in {secretName, "other-secret"},
             ns \in {namespace, "other-namespace"} }

\* the first signing key of the Secret, which the replica loaded at its start
WatchFirstKeys == [k \in {<<"1">>} |-> KeyBytes(k)]

\* the replica has started: its signer holds the keys of the initial load
InitWatch ==
    /\ now = 0
    /\ cfg \in {c \in SignerConfigs : c.newKeyUseDelay <= 1 /\ c.expiration > 0}
    /\ signingKeys = [r \in Replicas |-> IF r \in Signers THEN WatchFirstKeys ELSE EmptyMap]
    /\ keyAddedTimes = [r \in Replicas |->
                          IF r \in Signers THEN [k \in Dom(WatchFirstKeys) |-> 0]
                          ELSE EmptyMap]
    /\ latestKid = [r \in Replicas |-> IF r \in Signers THEN <<"1">> ELSE EmptyStr]
    /\ pc = [r \in Replicas |-> "idle"]
    /\ sel = [r \in Replicas |-> Idle]
    /\ token = None
    /\ ret = None
    /\ secret = [data |-> EmptyMap, resourceVersion |-> 0]
    /\ rot = [p \in Rotators |-> RotIdle]
    /\ status = [r \in Replicas |-> IF r \in Signers THEN [up |-> TRUE, since |-> 0] ELSE Down]
    /\ events = [r \in Replicas |-> <<>>]
    /\ observed = [r \in Replicas |-> IF r \in Signers THEN Dom(WatchFirstKeys) ELSE {}]
    /\ nextRotation = 0
    /\ loading = [r \in Replicas |-> None]

WatchAdd == \E r \in Signers, obj \in WatchObjects : AddFunc(r, obj)

WatchUpdate == \E r \in Signers, obj \in WatchObjects : UpdateFunc(r, obj)

WatchDelete == \E r \in Signers, obj \in WatchObjects : DeleteFunc(r, obj)

WatchGenerate == \E r \in Signers, keep \in BOOLEAN : Generate(r, SysPayload, keep)

WatchValidate ==
    \E r \in Signers : token # None /\ CallValidateToken(r, token.tok)

WatchTick == Tick(1, WatchMaxTime)

NextWatch ==
    \/ WatchAdd
    \/ WatchUpdate
    \/ WatchDelete
    \/ WatchGenerate
    \/ WatchValidate
    \/ WatchTick

SpecWatch == InitWatch /\ [][NextWatch]_vars

-----------------------------------------------------------------------------
(* SpecStart: two middleware replicas starting against a Secret of any content *)
(* and a store that may refuse the read.                                       *)

StartMaxTime == 1

\* a value of 10 bytes, stored by some other writer of the Secret
ShortKey(k) == [nil |-> FALSE, len |-> 10, of |-> k]

\* the contents of the Secret at the start: those of the watch, two in which the
\* key stamped 2 holds a short value, and one with two names of timestamp 1
StartData ==
    WatchData
    \cup { [e \in S |-> IF e = BuildKeyName(2) THEN ShortKey(TrimPrefix(e))
                        ELSE KeyBytes(TrimPrefix(e))] :
             S \in {{BuildKeyName(2)}, {BuildKeyName(1), BuildKeyName(2)}} }
    \cup { [e \in {BuildKeyName(1), PaddedName} |-> KeyBytes(TrimPrefix(e))] }

InitStart ==
    /\ now = 0
    /\ cfg \in {c \in SignerConfigs : c.newKeyUseDelay <= 1 /\ c.expiration > 0}
    /\ signingKeys = [r \in Replicas |-> EmptyMap]
    /\ keyAddedTimes = [r \in Replicas |-> EmptyMap]
    /\ latestKid = [r \in Replicas |-> EmptyStr]
    /\ pc = [r \in Replicas |-> "idle"]
    /\ sel = [r \in Replicas |-> Idle]
    /\ token = None
    /\ ret = None
    /\ \E d \in StartData : secret = [data |-> d, resourceVersion |-> 0]
    /\ rot = [p \in Rotators |-> RotIdle]
    /\ status = [r \in Replicas |-> Down]
    /\ events = [r \in Replicas |-> <<>>]
    /\ observed = [r \in Replicas |-> {}]
    /\ nextRotation = 0
    /\ loading = [r \in Replicas |-> None]

StartRun == \E r \in Replicas, get \in GetOutcomes(secret.data) : StartWith(r, get)

StartGenerate == \E r \in Replicas, keep \in BOOLEAN : Generate(r, SysPayload, keep)

StartValidate ==
    \E r \in Replicas : status[r].up /\ token # None /\ CallValidateToken(r, token.tok)

\* the informer of a running replica reports the Secret as it is: the Add event
\* for the version the start has loaded, or its re-delivery
StartAdd ==
    \E r \in Replicas :
        /\ status[r].up
        /\ AddFunc(r, [name |-> secretName, namespace |-> namespace, data |-> secret.data])

StartTick == Tick(1, StartMaxTime)

NextStart ==
    \/ StartRun
    \/ StartAdd
    \/ StartGenerate
    \/ StartValidate
    \/ StartTick

SpecStart == InitStart /\ [][NextStart]_vars

-----------------------------------------------------------------------------
(* SpecCodec: the readers of the Secret (the middleware's parser, the rotator's *)
(* ValidateSecret and GetLatestKeyID) applied to Secrets of any content.        *)

\* entries of one Secret at most
CodecMaxEntries == 3

CodecNames ==
    {BuildKeyName(1), PaddedName, BuildKeyName(2), ZeroName, MalformedName, ForeignName}

CodecData ==
    {[e \in S |-> KeyBytes(TrimPrefix(e))] :
        S \in {T \in SUBSET CodecNames : Cardinality(T) <= CodecMaxEntries}}

InitCodec ==
    /\ InitSigner
    /\ cfg.newKeyUseDelay = 0
    /\ cfg.expiration > 0

\* some writer puts a content into the Secret
CodecPut ==
    /\ \E d \in CodecData : secret' = [secret EXCEPT !.data = d]
    /\ ret' = None
    /\ UNCHANGED <<now, cfg, signerVars, pc, sel, token, rot, clusterVars>>

CodecParse ==
    /\ \E got \in ParseSigningKeysFromSecret(secret.data) :
         ret' = [op |-> "ParseSigningKeysFromSecret", err |-> got.err,
                 keys |-> got.keys, latest |-> got.latest]
    /\ UNCHANGED <<now, cfg, signerVars, pc, sel, token, storeVars, clusterVars>>

CodecValidate == CallValidateSecret

CodecLatest == CallGetLatestKeyID

NextCodec ==
    \/ CodecPut
    \/ CodecParse
    \/ CodecValidate
    \/ CodecLatest

SpecCodec == InitCodec /\ [][NextCodec]_vars

-----------------------------------------------------------------------------
(* The start of a replica next to its watch handlers: the handlers are          *)
(* registered by SetupAuthMiddlewareWithManager before the manager runs Start,   *)
(* so an event may be handled between the Get and the UpdateKeys of the initial  *)
(* load.                                                                         *)

\* writes to the Secret
LoadMaxWrites == 2

\* seconds the clock may advance
LoadMaxTime == 1

\* contents the rotator leaves in the Secret, one rotation after another
LoadData ==
    {[e \in S |-> KeyBytes(TrimPrefix(e))] :
        S \in {{BuildKeyName(1)}, {BuildKeyName(1), BuildKeyName(2)},
               {BuildKeyName(2), BuildKeyName(3)}}}

InitLoad ==
    /\ InitSigner
    /\ cfg.newKeyUseDelay <= 1
    /\ cfg.expiration > 0

\* a rotator replaces the content of the Secret
LoadPut ==
    /\ secret.resourceVersion < LoadMaxWrites
    /\ \E d \in LoadData \ {secret.data} :
         secret' = [data |-> d, resourceVersion |-> secret.resourceVersion + 1]
    /\ ret' = None
    /\ UNCHANGED <<now, cfg, signerVars, pc, sel, token, rot, clusterVars>>

LoadGet == \E r \in Signers : StartGet(r)

LoadFinish == \E r \in Signers : StartLoad(r)

\* the informer reports the Secret as it is to the handler of a replica
LoadEvent ==
    \E r \in Signers :
        UpdateFunc(r, [name |-> secretName, namespace |-> namespace, data |-> secret.data])

LoadGenerate == \E r \in Signers, keep \in BOOLEAN : Generate(r, SysPayload, keep)

LoadTick == Tick(1, LoadMaxTime)

NextLoad ==
    \/ LoadPut
    \/ LoadGet
    \/ LoadFinish
    \/ LoadEvent
    \/ LoadGenerate
    \/ LoadTick

SpecLoad == InitLoad /\ [][NextLoad]_vars

-----------------------------------------------------------------------------
(* SpecOrder: one replica next to a rotator that fires every second, over the    *)
(* seconds in which the decimal timestamps grow from one digit to two.           *)

\* the second at which the Secret gets its first key
OrderFirst == 8

\* seconds of one behaviour
OrderMaxSteps == 3

OrderConfigs ==
    [newKeyUseDelay : {0, 1, 2}, expiration : {3600}, numberOfKeys : {1, 2},
     rotationInterval : {1}, watchLag : {1}]

InitOrder ==
    /\ now = OrderFirst
    /\ cfg \in OrderConfigs
    /\ signingKeys = [r \in Replicas |-> EmptyMap]
    /\ keyAddedTimes = [r \in Replicas |-> EmptyMap]
    /\ latestKid = [r \in Replicas |-> EmptyStr]
    /\ pc = [r \in Replicas |-> "idle"]
    /\ sel = [r \in Replicas |-> Idle]
    /\ token = None
    /\ ret = None
    /\ secret = [data |-> [n \in {BuildKeyName(OrderFirst)} |->
                              KeyBytes(FormatInt(OrderFirst))],
                 resourceVersion |-> 0]
    /\ rot = [p \in Rotators |-> RotIdle]
    /\ status = [r \in Replicas |-> Down]
    /\ events = [r \in Replicas |-> <<>>]
    /\ observed = [r \in Replicas |-> {}]
    /\ nextRotation = OrderFirst + cfg.rotationInterval
    /\ loading = [r \in Replicas |-> None]

OrderStart == \E r \in Signers : Start(r)

OrderDeliver == \E r \in Signers : Deliver(r)

OrderGenerate == \E r \in Signers, keep \in BOOLEAN : Generate(r, SysPayload, keep)

OrderRotate == CronRotate

OrderTick == Pass(1, OrderFirst + OrderMaxSteps)

NextOrder ==
    \/ OrderStart
    \/ OrderDeliver
    \/ OrderGenerate
    \/ OrderRotate
    \/ OrderTick

SpecOrder == InitOrder /\ [][NextOrder]_vars

-----------------------------------------------------------------------------
(* The Helm chart: validation of the values as the templates compute it.  A       *)
(* duration value is a string such as "90m": decimal digits and a unit letter.    *)

\* values the validation is rendered for
ChartMaxKeys == 3

\* sprig's hasSuffix
hasSuffix(suffix, s) == Len(s) > 0 /\ s[Len(s)] = suffix

\* sprig's trimSuffix
trimSuffix(suffix, s) == IF hasSuffix(suffix, s) THEN SubSeq(s, 1, Len(s) - 1) ELSE s

\* sprig's int: the integer a string parses to, 0 when it does not parse
toInt(s) == IF ParseInt(s).ok THEN ParseInt(s).val ELSE 0

\* the validation template for the values v with the rotator enabled: the message
\* of the first fail it reaches, "" when it renders
ValidationFailure(v) ==
    LET jwtExpirationMinutes ==
            IF hasSuffix("h", v.jwtExpiration)
                THEN toInt(trimSuffix("h", v.jwtExpiration)) * 60
            ELSE IF hasSuffix("m", v.jwtExpiration)
                THEN toInt(trimSuffix("m", v.jwtExpiration))
            ELSE 0
        rotationIntervalMinutes ==
            IF hasSuffix("h", v.rotationInterval)
                THEN toInt(trimSuffix("h", v.rotationInterval)) * 60
            ELSE IF hasSuffix("m", v.rotationInterval)
                THEN toInt(trimSuffix("m", v.rotationInterval))
            ELSE 0
        retentionMinutes == v.numberOfKeys * rotationIntervalMinutes
        requiredRetentionMinutes == jwtExpirationMinutes + RetentionBufferMinutes
        newKeyUseDelaySeconds ==
            IF hasSuffix("h", v.jwtNewKeyUseDelay)
                THEN toInt(trimSuffix("h", v.jwtNewKeyUseDelay)) * 3600
            ELSE IF hasSuffix("m", v.jwtNewKeyUseDelay)
                THEN toInt(trimSuffix("m", v.jwtNewKeyUseDelay)) * 60
            ELSE toInt(trimSuffix("s", v.jwtNewKeyUseDelay))
        jwtExpirationSeconds ==
            IF hasSuffix("h", v.jwtExpiration)
                THEN toInt(trimSuffix("h", v.jwtExpiration)) * 3600
            ELSE IF hasSuffix("m", v.jwtExpiration)
                THEN toInt(trimSuffix("m", v.jwtExpiration)) * 60
            ELSE IF hasSuffix("s", v.jwtExpiration)
                THEN toInt(trimSuffix("s", v.jwtExpiration))
            ELSE 0
        rotationIntervalSeconds == rotationIntervalMinutes * Minute
    IN  IF v.rotationInterval = EmptyStr
            THEN "rotator.rotationInterval is required when rotator is enabled"
        ELSE IF ~(hasSuffix("m", v.rotationInterval) \/ hasSuffix("h", v.rotationInterval))
            THEN "rotator.rotationInterval must end with 'm' (minutes) or 'h' (hours)"
        ELSE IF v.numberOfKeys = 0
            THEN "rotator.numberOfKeys is required when rotator is enabled"
        ELSE IF v.numberOfKeys < 1
            THEN "rotator.numberOfKeys must be at least 1"
        ELSE IF ~(hasSuffix("h", v.jwtExpiration) \/ hasSuffix("m", v.jwtExpiration))
            THEN "authmiddleware.jwtExpiration must end with 'm' (minutes) or 'h' (hours)"
        ELSE IF retentionMinutes < requiredRetentionMinutes
            THEN "Key retention must be >= JWT expiration + 30min buffer"
        ELSE IF ~(\/ hasSuffix("h", v.jwtNewKeyUseDelay)
                  \/ hasSuffix("m", v.jwtNewKeyUseDelay)
                  \/ hasSuffix("s", v.jwtNewKeyUseDelay))
            THEN "authmiddleware.jwtNewKeyUseDelay must end with 's', 'm', or 'h'"
        ELSE IF newKeyUseDelaySeconds >= jwtExpirationSeconds
            THEN "authmiddleware.jwtNewKeyUseDelay must be less than jwtExpiration"
        ELSE IF newKeyUseDelaySeconds >= rotationIntervalSeconds
            THEN "authmiddleware.jwtNewKeyUseDelay must be less than rotator.rotationInterval"
        ELSE ""

\* defaulter.rotationCronSchedule: the schedule has a form for this interval
rotationCronSchedule(interval) ==
    IF hasSuffix("m", interval) THEN toInt(trimSuffix("m", interval)) <= 60
    ELSE IF hasSuffix("h", interval) THEN toInt(trimSuffix("h", interval)) <= 23
    ELSE FALSE

\* the string of n units
Duration(n, unit) == FormatInt(n) \o <<unit>>

ChartValues ==
    [numberOfKeys : 0..ChartMaxKeys,
     rotationInterval : {Duration(30, "m"), Duration(1, "h"), Duration(2, "h"),
                         Duration(3600, "s"), EmptyStr},
     jwtExpiration : {Duration(30, "m"), Duration(90, "m"), Duration(1, "h"),
                      Duration(3, "h"), Duration(3600, "s"), Duration(90, "s")},
     jwtNewKeyUseDelay : {Duration(30, "s"), Duration(5, "m"), Duration(1, "h")}]

InitChart == InitCodec

\* helm renders the chart for some values
ChartRender ==
    /\ \E v \in ChartValues :
         ret' = [op |-> "helm template", values |-> v, fail |-> ValidationFailure(v),
                 schedule |-> rotationCronSchedule(v.rotationInterval)]
    /\ UNCHANGED <<now, cfg, signerVars, pc, sel, token, storeVars, clusterVars>>

NextChart == ChartRender

SpecChart == InitChart /\ [][NextChart]_vars

-----------------------------------------------------------------------------
(* Properties of the StandardSigner *)

IsRet(op) == "op" \in DOMAIN ret /\ ret.op = op

Signed == IsRet("GenerateToken") /\ ret.err = ""

Validated == IsRet("ValidateToken")

\* the decimal value of a kid
KidValue(k) == ParseInt(k).val

\* C4 as stated: Cool-off monotonicity.  Whenever GenerateToken signs a token at
\* time t (its iat) with kid k, the signer's AddedAt[k] satisfies
\* AddedAt[k] + newKeyUseDelay <= t: a key still in cool-off is never used to
\* sign, under any interleaving with UpdateKeys.
CoolOffAtSigning ==
    (Signed /\ ret.tok.kid \in Dom(keyAddedTimes[ret.r])) =>
        keyAddedTimes[ret.r][ret.tok.kid] + cfg.newKeyUseDelay <= ret.tok.iat

\* C4 as amended: whenever GenerateToken signs a token at time t (its iat) with
\* kid k, the AddedAt[k] the signer held when it chose k satisfies
\* AddedAt[k] + newKeyUseDelay <= t, whatever UpdateKeys calls ran between the
\* choice and the signing.
CoolOffMonotonicity ==
    Signed => ret.selAdded + cfg.newKeyUseDelay <= ret.tok.iat

\* a token signed with a key that was first seen after time 0 and had to cool off
CoolOffMonotonicityWitness ==
    /\ Signed
    /\ cfg.newKeyUseDelay > 0
    /\ ret.selAdded > 0
    /\ ret.tok.iat = ret.selAdded + cfg.newKeyUseDelay

\* C5: Latest-wins.  Among the kids beyond cool-off, the kid chosen by a call of
\* getLatestKidAndKeyWithCoolOff is the numerically greatest, also when the
\* decimal strings differ in length.
LatestWinsNumeric ==
    [][\A r \in Replicas :
         (pc[r] = "idle" /\ pc'[r] = "signing") =>
            LET usable == BeyondCoolOff(keyAddedTimes[r], now, cfg.newKeyUseDelay)
            IN  usable # {} =>
                  /\ sel'[r].kid \in usable
                  /\ \A o \in usable : KidValue(o) <= KidValue(sel'[r].kid)]_vars

UnknownKidCase ==
    /\ Validated
    /\ ret.tok.alg = "HS384"
    /\ ret.tok.kid # EmptyStr
    /\ ret.tok.kid \notin Dom(signingKeys[ret.r])

AlgSubstitution ==
    /\ Validated
    /\ ret.tok.alg # "HS384"
    /\ ret.tok.kid \in Dom(signingKeys[ret.r])
    /\ ret.tok.sigKey = signingKeys[ret.r][ret.tok.kid]

-----------------------------------------------------------------------------
(* Properties of the rotator *)

Rotation == IsRet("RotateSecret") /\ ret.err = ""

\* C10: Retention bound.  After a successful RotateSecret with retention
\* numberOfKeys on a Secret holding p valid signing-key entries, the Secret holds
\* exactly min(p + 1, numberOfKeys) valid entries, all of them among the previous
\* valid entries and the new one, and none of them older than an entry it pruned.
RetentionBound ==
    Rotation =>
        LET prev   == ValidEntries(ret.before)
            cands  == prev \cup {ret.newKeyName}
            kept   == ValidEntries(secret.data)
            p      == Cardinality(prev)
        IN  /\ Cardinality(kept) = IF p + 1 <= ret.numberOfKeys THEN p + 1
                                   ELSE ret.numberOfKeys
            /\ kept \subseteq cands
            /\ \A k \in kept, o \in cands \ kept : Timestamp(o) <= Timestamp(k)

\* a rotation that pruned one of two entries of the same timestamp and kept the
\* new key, in a Secret that also holds entries a rotation does not count
RetentionBoundWitness ==
    /\ Rotation
    /\ ret.numberOfKeys = 2
    /\ {BuildKeyName(1), PaddedName} \subseteq ValidEntries(ret.before)
    /\ ret.newKeyName \in DOMAIN secret.data
    /\ Cardinality(ValidEntries(secret.data)) = 2
    /\ Cardinality(DOMAIN secret.data) > 2

-----------------------------------------------------------------------------
(* Properties of the deployment *)

\* C1: In a system of replicas watching the same Secret, where every write of the
\* Secret is delivered to every running replica within newKeyUseDelay of being
\* written, whenever a replica signs a token with kid k, every other running
\* replica has already been given k by its initial load or by a watch event.
SignedKidObservedByAll ==
    (Signed /\ "unseen" \in DOMAIN ret) => ret.unseen = {}

\* replica r handled every event and holds the keys of the Secret as it is now
Converged(r) ==
    /\ status[r].up
    /\ events[r] = <<>>
    /\ \E got \in ParseSigningKeysFromSecret(secret.data) :
         got.err = "" /\ got.keys = signingKeys[r]

\* C2: With the rotator run once per rotationInterval and a configuration the
\* chart accepts, the key that signed a token is not pruned from the Secret before
\* the token expires: a replica that has converged to the current Secret never
\* refuses an unexpired token because its kid is unknown.
SigningKeyRetainedUntilExpiry ==
    /\ (token # None /\ now <= token.tok.exp) =>
           KeyPrefix \o token.tok.kid \in DOMAIN secret.data
    /\ (/\ Validated
        /\ token # None
        /\ ret.tok = token.tok
        /\ now <= token.tok.exp
        /\ Converged(ret.r)) => ret.out.msg # "unknown key ID"

\* C3: Rotation does not interrupt issuance: under a configuration the chart
\* accepts, on a replica that has passed its initial cool-off, GenerateToken never
\* fails for want of a key beyond cool-off, whatever versions of the Secret the
\* rotations produced and the replica applied.
RotationKeepsIssuing ==
    (IsRet("GenerateToken") /\ "warm" \in DOMAIN ret /\ ret.warm) => ret.err = ""

\* an unexpired token of one replica validated on the other
CrossReplica ==
    /\ Validated
    /\ token # None
    /\ ret.tok = token.tok
    /\ ret.r # token.by
    /\ now <= token.tok.exp

\* C7: Cross-replica verification.  For two signers with the same configuration
\* that hold the same bytes for every kid they share, validating on one an
\* unexpired token generated by the other succeeds if and only if the token's kid
\* is in the validating signer's key set: it succeeds also while that kid is in
\* cool-off there, and fails with "unknown key ID" when the kid is absent or was
\* dropped by a later update.
CrossReplicaVerification ==
    CrossReplica =>
        /\ ret.out.err = "" <=> token.tok.kid \in Dom(signingKeys[ret.r])
        /\ ret.out.err # "" => ret.out.msg = "unknown key ID"

\* the validating replica accepts a token under a kid it holds in cool-off
CrossReplicaVerificationWitness ==
    /\ CrossReplica
    /\ ret.out.err = ""
    /\ token.tok.kid \in Dom(keyAddedTimes[ret.r])
    /\ now - keyAddedTimes[ret.r][token.tok.kid] < cfg.newKeyUseDelay

\* the validating replica refuses a token whose kid a later update dropped
CrossReplicaDropped ==
    /\ CrossReplica
    /\ ret.out.err # ""
    /\ token.tok.kid \in observed[ret.r]

-----------------------------------------------------------------------------
(* Further properties of the rotator and of the StandardSigner *)

ErrClockCollision == "key with timestamp already exists, refusing to overwrite"

\* C11: Rotation at clock collision.  When RotateSecret runs while the Secret it
\* read already holds the key entry of the current wall-clock second (a second
\* rotation within the same second), it fails with the collision error, issues no
\* Update and leaves every entry of the Secret unchanged.
ClockCollisionRefused ==
    [][("op" \in DOMAIN ret' /\ ret'.op = "RotateSecret"
          /\ ret'.newKeyName \in ValidEntries(ret'.before))
       => (ret'.err = ErrClockCollision /\ secret' = secret)]_vars

\* a second rotation in the second of a first one, on a Secret with other entries
ClockCollisionRefusedWitness ==
    /\ IsRet("RotateSecret")
    /\ ret.err = ErrClockCollision
    /\ ret.newKeyName \in DOMAIN secret.data
    /\ secret.resourceVersion > 0
    /\ ForeignName \in DOMAIN secret.data

UpdatedKeys == IsRet("UpdateKeys") /\ ret.err = ""

\* C12: Update preserves cool-off.  Every UpdateKeys that succeeds leaves each kid
\* held both before and after the call with exactly its previous AddedAt, and
\* stamps only the kids the signer did not hold with the current time.
UpdatePreservesAddedAt ==
    [][\A r \in Replicas :
         (signingKeys'[r] # signingKeys[r] \/ keyAddedTimes'[r] # keyAddedTimes[r]) =>
            \A k \in Dom(signingKeys'[r]) :
               /\ k \in Dom(keyAddedTimes'[r])
               /\ keyAddedTimes'[r][k] =
                     IF k \in Dom(signingKeys[r]) THEN keyAddedTimes[r][k] ELSE now]_vars

\* after an update the signer holds an old kid with its old time and a new kid
\* stamped later
UpdatePreservesAddedAtWitness ==
    /\ UpdatedKeys
    /\ \E k, n \in Dom(keyAddedTimes[ret.r]) :
          keyAddedTimes[ret.r][k] < now /\ keyAddedTimes[ret.r][n] = now

\* C13: In every state of a signer reachable through construction, UpdateKeys,
\* the initial load, GenerateToken and ValidateToken, the kids with an AddedAt
\* entry are exactly the kids of the key set.
AddedAtDomainIsKeySet ==
    \A r \in Replicas : Dom(keyAddedTimes[r]) = Dom(signingKeys[r])

\* a signer that dropped a kid it held at time 0 and holds another one
AddedAtDomainIsKeySetWitness ==
    /\ UpdatedKeys
    /\ Cardinality(Dom(signingKeys[ret.r])) = 1
    /\ \A k \in Dom(keyAddedTimes[ret.r]) : keyAddedTimes[ret.r][k] > 0

\* C14: After the first successful rotation the Secret holds at least 1 and at
\* most numberOfKeys valid signing-key entries, across any sequence of
\* RotateSecret calls with that numberOfKeys, failed ones included: every step
\* that changes the Secret is a successful RotateSecret that leaves between 1 and
\* its numberOfKeys valid entries, and a failed one changes nothing.
KeyCountWithinRetention ==
    [][secret' # secret =>
          /\ "op" \in DOMAIN ret' /\ ret'.op = "RotateSecret" /\ ret'.err = ""
          /\ Cardinality(ValidEntries(secret'.data)) >= 1
          /\ Cardinality(ValidEntries(secret'.data)) <= ret'.numberOfKeys]_vars

\* a rotation whose Update failed, after two that succeeded and filled the Secret
KeyCountWithinRetentionWitness ==
    /\ IsRet("RotateSecret")
    /\ ret.err = "failed to update secret"
    /\ secret.resourceVersion >= 2
    /\ Cardinality(ValidEntries(secret.data)) = ret.numberOfKeys

\* the timestamps of the valid signing-key entries of a Secret
StoreTimestamps(data) == {Timestamp(n) : n \in ValidEntries(data)}

\* C15: Every successful RotateSecret strictly increases the Secret's latest kid,
\* the numerically greatest key timestamp in it: after the rotation some
\* timestamp is greater than every timestamp the Secret held before, so the
\* latest kid never stays equal and never decreases.
LatestKidStrictlyForward ==
    [][("op" \in DOMAIN ret' /\ ret'.op = "RotateSecret" /\ ret'.err = "") =>
          \E a \in StoreTimestamps(secret'.data) :
              \A b \in StoreTimestamps(secret.data) : a > b]_vars

\* C16: Switch-over after rotation.  When a replica whose usable kid is k observes
\* an update adding a numerically greater kid k2, every token it signs during the
\* following newKeyUseDelay still carries kid k, and the first token it signs once
\* newKeyUseDelay has elapsed since the observation carries kid k2: a selection
\* made while the replica holds exactly k and k2, k added earlier and already
\* usable when k2 was added, takes k before AddedAt[k2] + newKeyUseDelay and k2 from then on.
SwitchOverAfterDelay ==
    [][\A r \in Replicas :
         (pc[r] = "idle" /\ pc'[r] = "signing") =>
            \A k, k2 \in Dom(keyAddedTimes[r]) :
               ( /\ Dom(keyAddedTimes[r]) = {k, k2}
                 /\ KidValue(k2) > KidValue(k)
                 /\ keyAddedTimes[r][k] < keyAddedTimes[r][k2]
                 /\ keyAddedTimes[r][k] + cfg.newKeyUseDelay <= keyAddedTimes[r][k2] )
               => sel'[r].kid = IF now < keyAddedTimes[r][k2] + cfg.newKeyUseDelay
                                THEN k ELSE k2]_vars

ErrNoUsableKey == "no signing key available beyond cooloff period"

\* C17: Cool-off refusal.  GenerateToken fails with the no-usable-key error
\* exactly when the signer holds no kid whose AddedAt is at least newKeyUseDelay
\* in the past (the empty signer before the initial load included); in that case
\* no token is produced, and the call leaves the signer's state as it was.
CoolOffRefusal ==
    [][\A r \in Replicas :
         /\ (pc[r] = "idle" /\ pc'[r] = "signing") =>
               /\ sel'[r].kid = EmptyStr <=>
                     ~ \E k \in Dom(keyAddedTimes[r]) :
                           keyAddedTimes[r][k] + cfg.newKeyUseDelay <= now
               /\ signerVars' = signerVars
         /\ (pc[r] = "signing" /\ pc'[r] = "idle") =>
               /\ "op" \in DOMAIN ret' /\ ret'.op = "GenerateToken" /\ ret'.r = r
               /\ ret'.err = (IF sel[r].kid = EmptyStr THEN ErrNoUsableKey ELSE "")
               /\ ret'.err # "" => (ret'.tok = None /\ token' = token)
               /\ signerVars' = signerVars]_vars

\* a refused GenerateToken on a signer whose keys are all still in cool-off
CoolOffRefusalWitness ==
    /\ IsRet("GenerateToken")
    /\ ret.err = ErrNoUsableKey
    /\ ret.tok = None
    /\ Dom(keyAddedTimes[ret.r]) # {}
    /\ \A k \in Dom(keyAddedTimes[ret.r]) :
          keyAddedTimes[ret.r][k] + cfg.newKeyUseDelay > now

\* kid k of replica r is still in cool-off
Cooling(r, k) ==
    k \in Dom(keyAddedTimes[r]) /\ now - keyAddedTimes[r][k] < cfg.newKeyUseDelay

\* kid k of replica r has passed the cool-off
Active(r, k) ==
    k \in Dom(keyAddedTimes[r]) /\ now - keyAddedTimes[r][k] >= cfg.newKeyUseDelay

\* C18: Cool-off ends.  Once newKeyUseDelay has elapsed since a key of the signer
\* was added, GenerateToken finds a usable kid and succeeds; and as the clock
\* advances every kid whose cool-off ends within the modelled time moves from
\* COOLING to ACTIVE unless an update removes it from the KeySet first.
CoolOffEnds ==
    /\ [][\A r \in Replicas :
            /\ (pc[r] = "idle" /\ pc'[r] = "signing"
                  /\ \E k \in Dom(keyAddedTimes[r]) : Active(r, k))
               => sel'[r].kid \in Dom(keyAddedTimes[r])
            /\ (pc[r] = "signing" /\ pc'[r] = "idle" /\ sel[r].kid # EmptyStr)
               => ("op" \in DOMAIN ret' /\ ret'.err = "" /\ ret'.tok # None)]_vars
    /\ \A r \in Signers, k \in SignerKids :
          (Cooling(r, k) /\ keyAddedTimes[r][k] + cfg.newKeyUseDelay <= SignerMaxTime)
             ~> (k \notin Dom(keyAddedTimes[r]) \/ Active(r, k))

\* a token signed with a kid that was in cool-off when the clock last stood still:
\* added after time 0, the delay not zero, and elapsed exactly now
CoolOffEndsWitness ==
    /\ Signed
    /\ cfg.newKeyUseDelay > 0
    /\ ret.tok.kid \in Dom(keyAddedTimes[ret.r])
    /\ keyAddedTimes[ret.r][ret.tok.kid] > 0
    /\ keyAddedTimes[ret.r][ret.tok.kid] + cfg.newKeyUseDelay = now
    /\ ret.tok.iat = now

-----------------------------------------------------------------------------
(* Properties of the watch handlers *)

\* the step ran the Add or the Update handler on the configured Secret
AddedOrUpdated == IsRet("AddFunc") \/ IsRet("UpdateFunc")

\* a prefixed entry whose suffix is not a number
NonNumericSuffix(data) ==
    \E n \in DOMAIN data : HasPrefix(n) /\ ~ParseInt(TrimPrefix(n)).ok

NoPrefixedEntry(data) == ~ \E n \in DOMAIN data : HasPrefix(n)

\* the content parses, and UpdateKeys refuses it: no entry has a timestamp above
\* 0, so no latest kid is found
FailsUpdateKeysPrecondition(data) ==
    /\ ~NonNumericSuffix(data)
    /\ ~NoPrefixedEntry(data)
    /\ \A n \in DOMAIN data : HasPrefix(n) => ParseInt(TrimPrefix(n)).val <= 0

\* C19: Malformed update is skipped.  When the Add or the Update handler gets the
\* configured Secret with content that fails to parse (a prefixed entry with a
\* non-numeric suffix, or no prefixed entry at all) or that fails the UpdateKeys
\* precondition, the signer's signingKeys, keyAddedTimes and latestKid are exactly
\* what they were before the event, and the failure is logged.
MalformedUpdateSkipped ==
    [][(AddedOrUpdated' /\ IsTarget(ret'.obj)
          /\ ( \/ NonNumericSuffix(ret'.obj.data)
               \/ NoPrefixedEntry(ret'.obj.data)
               \/ FailsUpdateKeysPrecondition(ret'.obj.data) ))
       => /\ signerVars' = signerVars
          /\ ret'.log \in {"Failed to parse signing keys", "Failed to update signing keys"}]_vars

\* an Update event whose Secret holds a good key next to a malformed one, handled
\* by a signer that keeps the two keys it had
MalformedUpdateSkippedWitness ==
    /\ IsRet("UpdateFunc")
    /\ IsTarget(ret.obj)
    /\ DOMAIN ret.obj.data = {BuildKeyName(1), MalformedName}
    /\ ret.log = "Failed to parse signing keys"
    /\ Cardinality(Dom(signingKeys[ret.r])) = 2
    /\ latestKid[ret.r] \in Dom(signingKeys[ret.r])

\* C20: A delete event for the configured Secret, and any event for a Secret of
\* another name or namespace, leaves the signer's signingKeys, keyAddedTimes and
\* latestKid unchanged: a token signed before still validates as it did, and
\* GenerateToken selects the kid it selected before.
DeleteAndForeignEventsIgnored ==
    [][\A r \in Replicas :
         ((AddedOrUpdated' \/ IsRet("DeleteFunc")')
            /\ ret'.r = r
            /\ (ret'.op = "DeleteFunc" \/ ~IsTarget(ret'.obj)))
         => /\ signerVars' = signerVars
            /\ token' = token
            /\ token # None =>
                  ValidateToken(r, token.tok, now)' = ValidateToken(r, token.tok, now)
            /\ getLatestKidAndKeyWithCoolOff(r)' = getLatestKidAndKeyWithCoolOff(r)]_vars

\* the configured Secret was deleted; the token signed before validates and a
\* key is there to sign the next one
DeleteAndForeignEventsIgnoredWitness ==
    /\ IsRet("DeleteFunc")
    /\ IsTarget(ret.obj)
    /\ token # None
    /\ ValidateToken(ret.r, token.tok, now).err = ""
    /\ getLatestKidAndKeyWithCoolOff(ret.r).kid # EmptyStr

-----------------------------------------------------------------------------
(* Properties of the start *)

-----------------------------------------------------------------------------
(* Properties of the rotator and of the key codec *)

\* an entry the rotator must not touch: no key prefix, or a suffix that is not a
\* timestamp
NotAKey(n) == ~HasPrefix(n) \/ ~ParseInt(TrimPrefix(n)).ok

\* C22: RotateSecret leaves foreign and malformed entries untouched.  After a
\* successful rotation every entry whose name lacks the key prefix, and every
\* prefixed entry whose suffix does not parse as a timestamp, is still present
\* with the same bytes; and such entries are not counted against numberOfKeys:
\* the signing keys left are the ones read plus one, cut down to numberOfKeys.
RotateLeavesOthersUntouched ==
    [][Rotation' =>
          LET before == ret'.before
              keysBefore == {n \in DOMAIN before : ~NotAKey(n)}
              keysAfter  == {n \in DOMAIN secret'.data : ~NotAKey(n)}
          IN  /\ \A n \in DOMAIN before :
                    NotAKey(n) => (n \in DOMAIN secret'.data /\ secret'.data[n] = before[n])
              /\ Cardinality(keysAfter) =
                    IF Cardinality(keysBefore) + 1 <= ret'.numberOfKeys
                    THEN Cardinality(keysBefore) + 1 ELSE ret'.numberOfKeys]_vars

\* a rotation that pruned a signing key of a Secret which also holds a malformed
\* and a foreign entry, both still there
RotateLeavesOthersUntouchedWitness ==
    /\ Rotation
    /\ {MalformedName, ForeignName} \subseteq DOMAIN secret.data
    /\ {MalformedName, ForeignName} \subseteq DOMAIN ret.before
    /\ \E n \in ValidEntries(ret.before) : n \notin DOMAIN secret.data
    /\ Cardinality(DOMAIN secret.data) > ret.numberOfKeys

\* C23: Every key admitted into a signer's KeySet has length exactly 48 bytes: a
\* Secret with a prefixed entry whose value is not 48 bytes long is not admitted
\* by the parse / UpdateKeys path, so no signer maps a kid to a key of another
\* length.
AdmittedKeysAre48Bytes ==
    \A r \in Replicas : \A k \in Dom(signingKeys[r]) :
        signingKeys[r][k].len = KeySizeBytes

-----------------------------------------------------------------------------
(* Properties of UpdateKeys and of the event handlers, continued *)

\* C24: UpdateKeys rejects an empty key map and a latestKid that is not a kid of
\* the map, and a rejected call leaves signingKeys, keyAddedTimes and latestKid
\* unchanged; otherwise the three fields are replaced together, so that no reader
\* sees a mix of old and new values: a selection always returns a kid with the
\* key the signer holds for it.
UpdateKeysAllOrNothing ==
    [][\A r \in Replicas :
         /\ (IsRet("UpdateKeys")' /\ ret'.r = r) =>
               IF Dom(ret'.keys) = {} \/ ret'.latest \notin Dom(ret'.keys)
               THEN ret'.err # "" /\ signerVars' = signerVars
               ELSE /\ ret'.err = ""
                    /\ signingKeys'[r] = ret'.keys
                    /\ latestKid'[r] = ret'.latest
                    /\ Dom(keyAddedTimes'[r]) = Dom(ret'.keys)
         /\ (pc[r] = "idle" /\ pc'[r] = "signing" /\ sel'[r].kid # EmptyStr) =>
               /\ sel'[r].kid \in Dom(signingKeys[r])
               /\ sel'[r].key = signingKeys[r][sel'[r].kid]]_vars

\* an update with keys and a latestKid outside them, refused by a signer that
\* keeps other keys
UpdateKeysAllOrNothingWitness ==
    /\ IsRet("UpdateKeys")
    /\ ret.err # ""
    /\ Dom(ret.keys) # {}
    /\ ret.latest \notin Dom(ret.keys)
    /\ Dom(signingKeys[ret.r]) # {}
    /\ Dom(signingKeys[ret.r]) # Dom(ret.keys)
    /\ latestKid[ret.r] \in Dom(signingKeys[ret.r])

-----------------------------------------------------------------------------
(* Properties of the readers of the Secret *)

Parsed == IsRet("ParseSigningKeysFromSecret")

\* the prefixed entries of the Secret whose suffix is a number
NamedKeys == {n \in DOMAIN secret.data : ~NotAKey(n)}

\* kid is the suffix of an entry of names with the numerically greatest timestamp
IsGreatest(kid, names) ==
    \E n \in names :
        /\ TrimPrefix(n) = kid
        /\ \A m \in names : ParseInt(TrimPrefix(m)).val <= ParseInt(TrimPrefix(n)).val

\* C25: Latest-kid computation.  For every Secret with at least one validly named
\* key entry (the timestamp any non-negative integer, 0 included),
\* ParseSigningKeysFromSecret and the rotator's GetLatestKeyID return as latestKid
\* the suffix of the entry with the numerically greatest timestamp, and that
\* latestKid is a key of the returned KeySet.
LatestKidIsGreatest ==
    /\ (Parsed /\ ret.err = "") =>
          /\ IsGreatest(ret.latest, NamedKeys)
          /\ ret.latest \in Dom(ret.keys)
    /\ (IsRet("GetLatestKeyID") /\ NamedKeys # {}) =>
          /\ ret.err = ""
          /\ IsGreatest(ret.kid, NamedKeys)

\* C26: ParseSigningKeysFromSecret skips entries without the key prefix without
\* error, fails the whole parse with the malformed-key error if the suffix of any
\* prefixed entry does not decode as a timestamp, fails with the no-keys error if
\* no prefixed entry exists, and otherwise returns exactly one KeySet entry per
\* prefixed entry, holding that entry's bytes.
ParseOutcomes ==
    Parsed =>
        LET prefixed == {n \in DOMAIN secret.data : HasPrefix(n)}
        IN  IF NonNumericSuffix(secret.data)
                THEN ret.err = "invalid key format" /\ Dom(ret.keys) = {}
            ELSE IF prefixed = {}
                THEN ret.err = "no signing keys found in secret" /\ Dom(ret.keys) = {}
            ELSE /\ ret.err = ""
                 /\ Dom(ret.keys) = {TrimPrefix(n) : n \in prefixed}
                 /\ Cardinality(Dom(ret.keys)) = Cardinality(prefixed)
                 /\ \A n \in prefixed : ret.keys[TrimPrefix(n)] = secret.data[n]

\* a Secret with a foreign entry and two keys of the same timestamp parses into
\* two kids
ParseOutcomesWitness ==
    /\ Parsed
    /\ ret.err = ""
    /\ DOMAIN secret.data = {BuildKeyName(1), PaddedName, ForeignName}
    /\ Dom(ret.keys) = {<<"1">>, <<"0", "1">>}

\* C27: Keys are write-once in the Secret.  Across any sequence of rotations the
\* bytes stored under a key name never change while the entry exists, RotateSecret
\* never overwrites an existing entry, and an entry disappears only by being
\* pruned as one of the oldest signing keys of a successful rotation.
KeysWriteOnce ==
    [][/\ \A n \in DOMAIN secret.data \cap DOMAIN secret'.data :
             secret'.data[n] = secret.data[n]
       /\ Rotation' => ret'.newKeyName \notin DOMAIN ret'.before
       /\ \A n \in DOMAIN secret.data \ DOMAIN secret'.data :
             /\ Rotation'
             /\ ~NotAKey(n)
             /\ \A m \in DOMAIN secret'.data :
                   ~NotAKey(m) =>
                      ParseInt(TrimPrefix(n)).val <= ParseInt(TrimPrefix(m)).val]_vars

\* a rotation that pruned the oldest key and kept a younger one, which has the
\* bytes it had
KeysWriteOnceWitness ==
    /\ Rotation
    /\ \E n \in ValidEntries(ret.before) \ DOMAIN secret.data :
         \E m \in ValidEntries(ret.before) \cap DOMAIN secret.data :
            /\ Timestamp(n) < Timestamp(m)
            /\ secret.data[m] = ret.before[m]
    /\ ret.newKeyName \in DOMAIN secret.data

\* a RotateSecret that returned a failure of the store
StoreFailure ==
    IsRet("RotateSecret") /\ ret.err \in {"failed to get secret", "failed to update secret"}

\* C28: RotateSecret does no internal retry and reports store failures.  If the
\* Get fails, or the final Update is rejected by the store (version conflict, not
\* found, forbidden), it returns that error after the single attempt and has
\* written nothing: the Secret is as it was.
RotateReportsStoreFailure ==
    [][\A p \in Rotators :
         /\ (rot[p].pc = "got" /\ rot'[p].pc = "idle"
               /\ rot[p].resourceVersion # secret.resourceVersion) =>
               /\ IsRet("RotateSecret")' /\ ret'.p = p
               /\ ret'.err # ""
               /\ secret' = secret
         /\ (StoreFailure' /\ ret'.p = p) =>
               /\ secret' = secret
               /\ rot'[p] = RotIdle]_vars

\* the Update of one rotator was refused because the other had written the Secret
\* in between
RotateReportsStoreFailureWitness ==
    /\ StoreFailure
    /\ ret.err = "failed to update secret"
    /\ secret.data # ret.before
    /\ secret.resourceVersion > 0
    /\ rot[ret.p] = RotIdle

\* the key map a Secret content parses into
KeysOf(data) ==
    [k \in {TrimPrefix(n) : n \in Prefixed(data)} |->
        data[CHOOSE n \in Prefixed(data) : TrimPrefix(n) = k]]

\* C29: Re-delivery is idempotent.  Applying the same valid version of the Secret
\* to a signer twice (a watch re-delivery, or an Add event for the version already
\* loaded at the start) yields the same signingKeys, keyAddedTimes and latestKid
\* as applying it once: an event whose content is the one the signer holds
\* changes none of the three, so no key's cool-off is restarted.
RedeliveryIdempotent ==
    [][\A r \in Replicas :
         (AddedOrUpdated' /\ ret'.r = r /\ IsTarget(ret'.obj)
            /\ ret'.log = "Successfully updated signing keys from secret"
            /\ KeysOf(ret'.obj.data) = signingKeys[r])
         => /\ signingKeys'[r] = signingKeys[r]
            /\ keyAddedTimes'[r] = keyAddedTimes[r]
            /\ latestKid'[r] = latestKid[r]]_vars

\* C30: Watch events are applied in delivery order.  After a sequence of Add and
\* Update events for the configured Secret has been handled, the signer's KeySet
\* equals the key set of the last event of the sequence that parsed successfully,
\* not of any earlier one: every such event that parses leaves its own key set in
\* the signer, and every other step leaves the KeySet as it is.
EventsAppliedInOrder ==
    [][\A r \in Signers :
         IF AddedOrUpdated' /\ ret'.r = r /\ IsTarget(ret'.obj)
              /\ ~NonNumericSuffix(ret'.obj.data) /\ ~NoPrefixedEntry(ret'.obj.data)
         THEN signingKeys'[r] = KeysOf(ret'.obj.data)
         ELSE signingKeys'[r] = signingKeys[r]]_vars

-----------------------------------------------------------------------------
(* Properties of GenerateToken and ValidateToken under concurrent updates *)

\* C31: Consistent snapshot in generate.  Under any interleaving of GenerateToken
\* with UpdateKeys calls, the kid chosen and the key bytes used to sign come from
\* the same version of the KeySet: the kid chosen is in the KeySet the selection
\* read and the bytes are that KeySet's entry for it, an update that runs before
\* the signing changes neither, the token carries that kid and is signed with
\* those bytes, and no token is signed with a missing or nil key.
ConsistentSnapshot ==
    [][\A r \in Replicas :
         /\ (pc[r] = "idle" /\ pc'[r] = "signing" /\ sel'[r].kid # EmptyStr) =>
                /\ sel'[r].kid \in Dom(signingKeys[r])
                /\ sel'[r].key = signingKeys[r][sel'[r].kid]
                /\ sel'[r].key # NilKey
         /\ (pc[r] = "signing" /\ pc'[r] = "signing") => sel'[r] = sel[r]
         /\ (pc[r] = "signing" /\ pc'[r] = "idle" /\ Signed' /\ ret'.r = r) =>
                /\ ret'.tok.kid = sel[r].kid
                /\ ret'.tok.sigKey = sel[r].key
                /\ ret'.tok.sigKey # NilKey]_vars

\* a token signed under a kid that an update dropped from the signer between the
\* selection and the signing, with the bytes the selection read
ConsistentSnapshotWitness ==
    /\ Signed
    /\ ret.tok.kid \notin Dom(signingKeys[ret.r])
    /\ signingKeys[ret.r] # EmptyMap
    /\ ret.tok.sigKey = KeyBytes(ret.tok.kid)

\* a token ValidateToken checks the registered claims of: HS384, a kid the
\* verifier holds, signed with that kid's bytes, issuer and audience as configured
WellSigned ==
    /\ Validated
    /\ ret.tok.alg = "HS384"
    /\ ret.tok.sigAlg = "HS384"
    /\ ret.tok.kid \in Dom(signingKeys[ret.r])
    /\ ret.tok.sigKey = signingKeys[ret.r][ret.tok.kid]
    /\ ret.tok.iss = Issuer
    /\ ret.tok.aud = Audience

\* C32 as stated: Expiry with leeway.  A token with a known kid, a valid
\* signature and matching iss/aud is accepted by ValidateToken while the current
\* time is at most exp + 5 seconds, and is rejected with ErrTokenExpired once the
\* current time exceeds exp + 5 seconds.
ExpiryAtMostLeeway ==
    WellSigned =>
        IF now <= ret.tok.exp + 5
        THEN ret.out.err = ""
        ELSE ret.out.err = "ErrTokenExpired" /\ ret.out.claims = None

\* C32 as amended: such a token is accepted by ValidateToken while the current
\* time is before exp + 5 seconds, and is rejected with ErrTokenExpired from the
\* instant exp + 5 seconds on, where exp = issue time + configured expiration.
ExpiryWithLeeway ==
    WellSigned =>
        /\ ret.tok.exp = ret.tok.iat + cfg.expiration
        /\ IF now < ret.tok.exp + 5
           THEN ret.out.err = "" /\ ret.out.claims = ClaimsOf(ret.tok)
           ELSE ret.out.err = "ErrTokenExpired" /\ ret.out.claims = None

\* the signer's own token, refused as expired at the instant exp + 5 seconds
ExpiryWithLeewayWitness ==
    /\ WellSigned
    /\ token # None
    /\ ret.tok = token.tok
    /\ now = ret.tok.exp + 5
    /\ now > ret.tok.iat
    /\ ret.out.err = "ErrTokenExpired"

-----------------------------------------------------------------------------
(* Properties of the chart validation *)

\* the seconds a duration string stands for
DurationSeconds(d) ==
    toInt(SubSeq(d, 1, Len(d) - 1))
        * (IF hasSuffix("h", d) THEN 3600 ELSE IF hasSuffix("m", d) THEN 60 ELSE 1)

\* a rendering whose options other than the retention are valid: the suffixes are
\* the documented ones, numberOfKeys is at least 1, and the cool-off is shorter
\* than the token lifetime and than the rotation interval
OtherOptionsValid ==
    /\ IsRet("helm template")
    /\ ret.values.numberOfKeys >= 1
    /\ hasSuffix("m", ret.values.rotationInterval) \/ hasSuffix("h", ret.values.rotationInterval)
    /\ ret.schedule
    /\ \E u \in {"s", "m", "h"} : hasSuffix(u, ret.values.jwtExpiration)
    /\ DurationSeconds(ret.values.jwtNewKeyUseDelay) < DurationSeconds(ret.values.jwtExpiration)
    /\ DurationSeconds(ret.values.jwtNewKeyUseDelay) < DurationSeconds(ret.values.rotationInterval)

\* C33: Configuration validation rejects every combination in which
\* numberOfKeys x rotationInterval is less than jwtExpiration + 30 minutes, and
\* accepts it otherwise (given the other options are valid), for every
\* jwtExpiration with suffix s, m or h and every rotationInterval with suffix m
\* or h.
RetentionValidated ==
    OtherOptionsValid =>
        (ret.fail # "" <=>
            ret.values.numberOfKeys * DurationSeconds(ret.values.rotationInterval)
                < DurationSeconds(ret.values.jwtExpiration) + 30 * Minute)

-----------------------------------------------------------------------------
(* Properties of the initial load *)

\* C34: Initial load does not regress the signer.  The watch handlers are
\* registered before the initial load runs, and if a watch event carrying a newer
\* version of the Secret is applied between the initial load's read and its
\* UpdateKeys call, then once both have completed the signer's KeySet is that of
\* the newest version it was given, not the older one the initial load read: a
\* Start that completes on a signer holding the keys of the current, newer
\* version leaves the signer with these keys.
InitialLoadNoRegress ==
    [][\A r \in Replicas :
         (/\ loading[r] # None
          /\ loading'[r] = None
          /\ IsRet("Start")'
          /\ ret'.err = ""
          /\ loading[r].resourceVersion < secret.resourceVersion
          /\ signingKeys[r] = KeysOf(secret.data))
         => signingKeys'[r] = KeysOf(secret.data)]_vars

-----------------------------------------------------------------------------
(* Properties of RotateSecret, continued *)

\* C35: A successful rotate never prunes the key it has just created.  Whenever
\* RotateSecret returns success, the Secret contains the entry named for the
\* rotation's timestamp with the freshly generated 48-byte value, whatever the
\* timestamps of the entries already present.
NewKeyKept ==
    Rotation =>
        /\ ret.newKeyName \in DOMAIN secret.data
        /\ secret.data[ret.newKeyName] = KeyBytes(TrimPrefix(ret.newKeyName))
        /\ secret.data[ret.newKeyName].len = 48

\* C36: Two interleaved rotations cannot lose an update.  If two RotateSecret
\* invocations read the same version of the Secret before either writes, the
\* store's version check lets at most one Update succeed and the other returns an
\* error; the Secret only ever changes by a whole rotation applied to the content
\* it holds, one after another, and it never holds more than numberOfKeys valid
\* entries after a successful rotation.
NoLostUpdate ==
    [][/\ secret' # secret =>
            \E p \in Rotators :
                /\ Rotation' /\ ret'.p = p
                /\ rot[p].pc = "got"
                /\ rot[p].resourceVersion = secret.resourceVersion
                /\ secret'.resourceVersion = secret.resourceVersion + 1
                /\ secret'.data \in
                     {o.data : o \in Rotated(secret.data, rot[p].numberOfKeys, now)}
                /\ Cardinality(ValidEntries(secret'.data)) <= rot[p].numberOfKeys
       /\ \A p \in Rotators :
            (/\ IsRet("RotateSecret")' /\ ret'.p = p
             /\ rot[p].pc = "got"
             /\ rot[p].resourceVersion # secret.resourceVersion)
            => ret'.err # "" /\ secret' = secret]_vars

\* the second of two rotations that read the same first version of the Secret:
\* its Update is refused after the other one has written
NoLostUpdateWitness ==
    /\ IsRet("RotateSecret")
    /\ ret.err = "failed to update secret"
    /\ secret.resourceVersion = 1
    /\ ret.before # secret.data
    /\ ret.newKeyName \notin DOMAIN secret.data
    /\ \E n \in ValidEntries(secret.data) : n \notin DOMAIN ret.before

-----------------------------------------------------------------------------
(* Properties of the cool-off over several updates *)

NoActiveToCooling ==
    [][\A r \in Replicas :
         \A k \in Dom(signingKeys[r]) \cap Dom(signingKeys'[r]) :
            Active(r, k) =>
               /\ Active(r, k)'
               /\ keyAddedTimes'[r][k] = keyAddedTimes[r][k]
               /\ k \in BeyondCoolOff(keyAddedTimes'[r], now', cfg.newKeyUseDelay)]_vars

\* an update that kept a kid beyond its cool-off and brought in another kid, which
\* is cooling
NoActiveToCoolingWitness ==
    /\ UpdatedKeys
    /\ cfg.newKeyUseDelay > 0
    /\ \E k, n \in Dom(signingKeys[ret.r]) :
          /\ Active(ret.r, k)
          /\ keyAddedTimes[ret.r][k] < now
          /\ Cooling(ret.r, n)
          /\ latestKid[ret.r] = n

-----------------------------------------------------------------------------
(* Frame of the calls on the signer *)

\* C40: GenerateToken and ValidateToken are read-only on the signer.  Whether
\* they succeed or fail, signingKeys, keyAddedTimes and latestKid are the same
\* after the call as before, at the selection of the kid as well as at the
\* signing; only a successful UpdateKeys ever changes the state of a signer.
ReadOnlyCalls ==
    [][/\ (IsRet("GenerateToken")' \/ IsRet("ValidateToken")') =>
            signerVars' = signerVars
       /\ (\E r \in Replicas : pc'[r] # pc[r]) => signerVars' = signerVars
       /\ signerVars' # signerVars => UpdatedKeys']_vars

\* the signer's own token refused as expired by a signer that holds two kids, and
\* the signer is as it was
ReadOnlyCallsWitness ==
    /\ Validated
    /\ token # None
    /\ ret.tok = token.tok
    /\ ret.out.err = "ErrTokenExpired"
    /\ Cardinality(Dom(signingKeys[ret.r])) = 2
    /\ Dom(keyAddedTimes[ret.r]) = Dom(signingKeys[ret.r])
    /\ latestKid[ret.r] \in Dom(signingKeys[ret.r])

====
